---------------------------- MODULE Spec2Model ----------------------------
(***************************************************************************)
(* A model of the offline-first task manager (nested-task-compass).        *)
(*                                                                         *)
(* Fourteen specifications over the shared variables model its parts:      *)
(*                                                                         *)
(*   SpecQueue   SupabaseTaskProvider: connectivity, the pending-operations *)
(*               queue and its drain effect.                               *)
(*   SpecWrites  SupabaseTaskProvider as constructed: connectivity and the *)
(*               task write handlers (addTaskDb .. deleteTaskDb).          *)
(*   SpecDb      SupabaseTaskProvider: the time-tracking handlers          *)
(*               (startTimeTrackingDb .. deleteTimeTrackingDb) over the    *)
(*               flat task list and the remote tables.                     *)
(*   SpecForest  TimeTrackingProvider + useTaskActions + TaskHelpers: the  *)
(*               time-tracking handlers over the nested task forest.       *)
(*   SpecReload  SupabaseTaskProvider: the reloads behind the change       *)
(*               notifications, the timer, and another session's writes.   *)
(*   SpecIds     TaskHelpers.ensureUUID and TaskContextProvider's loader:  *)
(*               legacy identifiers, local storage and restarts.           *)
(*   SpecTree    TaskHelpers.updateTaskInHierarchy and                     *)
(*               deleteTaskFromHierarchy over task forests.                *)
(*   SpecNest    SupabaseTaskProvider: the task list with the parent of    *)
(*               each task (addTaskDb, deleteTaskDb, loadTasks).           *)
(*   SpecActions useTaskActions under TaskContextProvider: updateTask,     *)
(*               deleteTask, updateRecurringTask, deleteRecurringTask and  *)
(*               the remote rows of two owners.                            *)
(*   SpecUser    serviceUtils.getCurrentUserId: the owner identity in      *)
(*               local storage, over restarts.                             *)
(*   SpecCache   the Cache of serviceUtils: set, get, invalidate, clear    *)
(*               and the passing of time.                                  *)
(*   SpecStop    TimeTrackingProvider: startTimeTracking and               *)
(*               stopTimeTracking for the tasks of the forest.             *)
(*   SpecOverlap SupabaseTaskProvider: loadTasks calls started by change   *)
(*               notifications, by their remote steps.                     *)
(*   SpecService timeTrackingService called by several clients, by its     *)
(*               remote steps.                                             *)
(*                                                                         *)
(* Handlers are asynchronous; a handler runs without interruption between  *)
(* two awaits of a remote call.  A remote call either succeeds or fails;   *)
(* while the browser reports offline it fails.                             *)
(*                                                                         *)
(* In SupabaseTaskProvider the handlers name `userId` and                  *)
(* `getCurrentUserId` without declaring or importing them; the model reads *)
(* both as the owner identity of serviceUtils.getCurrentUserId.            *)
(***************************************************************************)
EXTENDS Integers, Sequences, FiniteSets, TLC

(***************************************************************************)
(* Bounds of the model.                                                    *)
(***************************************************************************)
MaxQueue == 2        \* longest pending-operations queue at the start
MaxFailures == 2     \* remote failures of replays in one behaviour
MaxWrites == 3       \* task write handlers called in one behaviour

VARIABLES
    \* ---- SupabaseTaskProvider: connectivity and the queue
    isOnline,            \* useOnlineStatus().isOnline
    pendingOperations,   \* useState<Array<{type, entity, data}>>
    drains,              \* the processPendingOperations calls started so far
    replayLog,           \* remote calls issued by the drains, and their outcomes
    failures,            \* number of failed replays so far
    \* ---- SupabaseTaskProvider: the flat task list and the remote tasks table
    tasks,               \* useState<Task[]>
    remoteTasks,         \* rows of the remote table `tasks`
    thrown,              \* whether the last handler called rejected
    nextUid,             \* identity of the next mutation issued
    offlineIssued,       \* the mutations issued while offline
    \* ---- time tracking (both providers) and the remote table time_trackings
    timeTrackings,       \* useState<TimeTracking[]>: the completed entries
    activeTimeTracking,  \* useState<TimeTracking | null>
    remoteTrackings,     \* rows of the remote table `time_trackings`
    nextTrackingId,      \* the id the remote store gives the next inserted row
    remoteFailed,        \* whether a remote call of a tracking handler has failed
    reloaded,            \* the reload that ended the last step and its outcome, or "none"
    \* ---- identifiers: TaskHelpers.ensureUUID and TaskContextProvider's loader
    storedMapping,       \* local storage, key khonja_id_mapping: legacy id -> UUID
    storedTasks,         \* local storage, key quire-tasks: the task forest
    uuids,               \* how many identifiers uuidv4 has generated
    run,                 \* how many times the process has started
    resolved,            \* every identifier conversion made so far
    \* ---- the tree helpers of TaskHelpers
    lastCall,            \* the last call of a tree helper or stop handler: its name and arguments
    \* ---- serviceUtils: the owner identity
    storedUserId,        \* local storage, key khonja_user_id
    userIdLog,           \* the outcome of every getCurrentUserId call so far
    \* ---- LocalCache (the Cache of serviceUtils)
    cacheEntries,        \* the entries, the least recently used first
    cacheClock,          \* the instant the cache reads as now
    cacheOps,            \* the operations on the cache so far, with what get returned
    \* ---- remote calls in flight
    reloads,             \* the loadTasks calls started by change notifications
    sessions             \* the timeTrackingService call each client is in

queueVars == <<isOnline, pendingOperations, drains, replayLog, failures>>
taskVars == <<tasks, remoteTasks, thrown, nextUid, offlineIssued>>
trackVars == <<timeTrackings, activeTimeTracking, remoteTrackings, nextTrackingId, remoteFailed>>
userVars == <<storedUserId, userIdLog>>
cacheVars == <<cacheEntries, cacheClock, cacheOps>>
flightVars == <<reloads, sessions>>
serviceVars == <<userVars, cacheVars, flightVars>>
idVars == <<storedMapping, storedTasks, uuids, run, resolved, lastCall, serviceVars>>
vars == <<queueVars, taskVars, trackVars, reloaded, idVars>>

(***************************************************************************)
(* The pending-operations queue (SupabaseTaskProvider.tsx 63-69, 121-161). *)
(***************************************************************************)
OpTypes == {"add", "update", "delete"}
OpEntities == {"task", "project", "timeTracking", "timeBlock"}

\* A pending record; uid stands for the identity of the record object.
PendingOperation == [type : OpTypes, entity : OpEntities, uid : 1..MaxQueue]

\* The branches of the switch that issue a remote call.
Handled(op) ==
    \/ op.type = "add" /\ op.entity \in {"task", "project"}
    \/ op.type = "update" /\ op.entity = "task"
    \/ op.type = "delete" /\ op.entity = "task"


\* The order in which one drain visits its batch: for (const operation of operations).
ReplayOrderReversed(batch) == [j \in 1..Len(batch) |-> Len(batch) + 1 - j]

ReplayOrder(batch) == [j \in 1..Len(batch) |-> j]

\* The record a drain visits at step k of its loop.
RecordAt(batch, k) == batch[ReplayOrder(batch)[k]]

\* The first step from k on whose record has a branch issuing a remote call;
\* the loop runs through the other records without suspending.
NextCall(batch, k) ==
    LET steps == {j \in k..Len(batch) : Handled(RecordAt(batch, j))}
    IN  IF steps = {} THEN Len(batch) + 1
        ELSE CHOOSE j \in steps : \A i \in steps : j <= i

LogEvent(d, op, e) == [d |-> d, r |-> op.uid, e |-> e]

\* A drain that has visited its whole batch.
DrainDone(dr) == dr.k > Len(dr.batch)

\* useEffect(..., [isOnline, pendingOperations]): run after a render in which
\* either changed.  With the guard true it copies the queue, installs an empty
\* one and runs the loop up to the first remote call.
Effect(online, queue, ds, log) ==
    IF online /\ Len(queue) > 0
    THEN LET d == Len(ds) + 1
             k == NextCall(queue, 1)
         IN  [queue |-> <<>>,
              ds |-> Append(ds, [batch |-> queue, k |-> k]),
              log |-> IF k <= Len(queue)
                      THEN Append(log, LogEvent(d, RecordAt(queue, k), "start"))
                      ELSE log]
    ELSE [queue |-> queue, ds |-> ds, log |-> log]

\* The browser's online / offline events.
GoOnline ==
    /\ ~isOnline
    /\ isOnline' = TRUE
    /\ LET eff == Effect(TRUE, pendingOperations, drains, replayLog)
       IN  /\ pendingOperations' = eff.queue
           /\ drains' = eff.ds
           /\ replayLog' = eff.log
    /\ reloaded' = "none"
    /\ UNCHANGED <<failures, taskVars, trackVars, idVars>>

GoOffline ==
    /\ isOnline
    /\ isOnline' = FALSE
    /\ reloaded' = "none"
    /\ UNCHANGED <<pendingOperations, drains, replayLog, failures, taskVars, trackVars, idVars>>

\* The remote call of drain d returns: on failure the record is appended to the
\* current queue (setPendingOperations(prev => [...prev, operation])), the loop
\* goes on to its next remote call, and the effect runs for the changed queue.
DrainComplete(d, ok) ==
    /\ d \in DOMAIN drains
    /\ ~DrainDone(drains[d])
    /\ ok => isOnline
    /\ ~ok => failures < MaxFailures
    /\ LET dr == drains[d]
           op == RecordAt(dr.batch, dr.k)
           k2 == NextCall(dr.batch, dr.k + 1)
           queue1 == IF ok THEN pendingOperations ELSE Append(pendingOperations, op)
           log1 == Append(replayLog, LogEvent(d, op, IF ok THEN "ok" ELSE "fail"))
           log2 == IF k2 <= Len(dr.batch)
                   THEN Append(log1, LogEvent(d, RecordAt(dr.batch, k2), "start"))
                   ELSE log1
           ds1 == [drains EXCEPT ![d].k = k2]
           eff == IF ok THEN [queue |-> queue1, ds |-> ds1, log |-> log2]
                  ELSE Effect(isOnline, queue1, ds1, log2)
       IN  /\ pendingOperations' = eff.queue
           /\ drains' = eff.ds
           /\ replayLog' = eff.log
    /\ failures' = IF ok THEN failures ELSE failures + 1
    /\ reloaded' = "none"
    /\ UNCHANGED <<isOnline, taskVars, trackVars, idVars>>

(***************************************************************************)
(* The task write handlers of SupabaseTaskProvider (385-480).              *)
(***************************************************************************)
Titles == {"t1", "t2"}

Task(id, title, timeTracked) == [id |-> id, title |-> title, timeTracked |-> timeTracked]

\* A row of the remote table `tasks`, and the row written for a task.
TaskRow(id, title, time_tracked) == [id |-> id, title |-> title, time_tracked |-> time_tracked]

RowOfTask(task) == TaskRow(task.id, task.title, task.timeTracked)

\* The mapping of a returned row to a Task (loadTasks, addTaskDb).
TaskOfRow(row) == Task(row.id, row.title, row.time_tracked)

\* update(row).eq('id', row.id): the columns of row are written into the rows
\* with its id, whose other columns stay.
UpdateRow(rows, row) ==
    {IF r.id = row.id
     THEN [c \in DOMAIN r |-> IF c \in DOMAIN row THEN row[c] ELSE r[c]]
     ELSE r : r \in rows}

ReplaceTask(list, task) == [i \in DOMAIN list |-> IF list[i].id = task.id THEN task ELSE list[i]]

RemoveTask(list, id) == SelectSeq(list, LAMBDA t : t.id # id)

\* What every write handler does to the record of issued mutations.
IssueUpTo(max, type, entity) ==
    /\ nextUid <= max
    /\ nextUid' = nextUid + 1
    /\ offlineIssued' = IF isOnline THEN offlineIssued
                        ELSE offlineIssued \cup {[type |-> type, entity |-> entity, uid |-> nextUid]}

Issue(type, entity) == IssueUpTo(MaxWrites, type, entity)

\* addTaskDb: insert remotely, then append the returned row; rethrows.
AddTaskDb(title, ok) ==
    /\ ok => isOnline
    /\ Issue("add", "task")
    /\ IF ok
       THEN /\ remoteTasks' = remoteTasks \cup {TaskRow(nextUid, title, 0)}
            /\ tasks' = Append(tasks, TaskOfRow(TaskRow(nextUid, title, 0)))
            /\ thrown' = FALSE
       ELSE /\ thrown' = TRUE
            /\ UNCHANGED <<tasks, remoteTasks>>
    /\ reloaded' = "none"
    /\ UNCHANGED <<queueVars, trackVars, idVars>>

\* updateTaskDb: update the remote row, then replace the task in the list; rethrows.
UpdateTaskDb(task, ok) ==
    /\ ok => isOnline
    /\ Issue("update", "task")
    /\ IF ok
       THEN /\ remoteTasks' = UpdateRow(remoteTasks, RowOfTask(task))
            /\ tasks' = ReplaceTask(tasks, task)
            /\ thrown' = FALSE
       ELSE /\ thrown' = TRUE
            /\ UNCHANGED <<tasks, remoteTasks>>
    /\ reloaded' = "none"
    /\ UNCHANGED <<queueVars, trackVars, idVars>>

\* deleteTaskDb: delete the remote row, then filter the list; the error is only logged.
DeleteTaskDb(id, ok) ==
    /\ ok => isOnline
    /\ Issue("delete", "task")
    /\ thrown' = FALSE
    /\ IF ok
       THEN /\ remoteTasks' = {r \in remoteTasks : r.id # id}
            /\ tasks' = RemoveTask(tasks, id)
       ELSE UNCHANGED <<tasks, remoteTasks>>
    /\ reloaded' = "none"
    /\ UNCHANGED <<queueVars, trackVars, idVars>>

(***************************************************************************)
(* SpecQueue: connectivity and the drain.  Nothing in the source appends   *)
(* to pendingOperations except the drain's own catch, so the drain is      *)
(* exercised as a procedure over its input: from every queue of at most    *)
(* MaxQueue records, the empty one included.  The effect runs once on      *)
(* mount.                                                                  *)
(***************************************************************************)
OpKinds == OpTypes \X OpEntities

InitialQueues ==
    UNION {{[i \in 1..n |-> [type |-> f[i][1], entity |-> f[i][2], uid |-> i]] :
            f \in [1..n -> OpKinds]} : n \in 0..MaxQueue}

Null == [null |-> TRUE]

\* No mapping of identifiers is stored; the process is in its first run.
EmptyMapping == [x \in {} |-> 0]

\* No tree helper has been called.
NoCall == [op |-> "none"]

InitCacheEmpty ==
    /\ cacheEntries = <<>>
    /\ cacheClock = 0
    /\ cacheOps = <<>>

\* No reload is in flight and no client is in a service call.
InitFlightIdle ==
    /\ reloads = <<>>
    /\ sessions = <<>>

InitServicesIdle ==
    /\ storedUserId = <<>>
    /\ userIdLog = <<>>
    /\ InitCacheEmpty
    /\ InitFlightIdle

InitIdsIdle ==
    /\ lastCall = NoCall
    /\ storedMapping = EmptyMapping
    /\ storedTasks = <<>>
    /\ uuids = 0
    /\ run = 1
    /\ resolved = {}
    /\ InitServicesIdle

InitTrackingIdle ==
    /\ InitIdsIdle
    /\ timeTrackings = <<>>
    /\ activeTimeTracking = Null
    /\ remoteTrackings = {}
    /\ nextTrackingId = 1
    /\ remoteFailed = FALSE
    /\ reloaded = "none"

InitTasksEmpty ==
    /\ InitTrackingIdle
    /\ tasks = <<>>
    /\ remoteTasks = {}
    /\ thrown = FALSE
    /\ nextUid = 1
    /\ offlineIssued = {}

InitQueue ==
    /\ isOnline \in BOOLEAN
    /\ \E q \in InitialQueues :
         LET eff == Effect(isOnline, q, <<>>, <<>>)
         IN  /\ pendingOperations = eff.queue
             /\ drains = eff.ds
             /\ replayLog = eff.log
    /\ failures = 0
    /\ InitTasksEmpty

NextQueue ==
    \/ GoOnline
    \/ GoOffline
    \/ \E d \in DOMAIN drains, ok \in BOOLEAN : DrainComplete(d, ok)

SpecQueue == InitQueue /\ [][NextQueue]_vars

(***************************************************************************)
(* SpecWrites: the provider as it is constructed (empty queue, empty task  *)
(* list), connectivity changes and the task write handlers.  No drain ever *)
(* starts here (NoDrainStarts), so the drain's steps are not part of the   *)
(* next-state relation.                                                    *)
(***************************************************************************)
InitWrites ==
    /\ isOnline \in BOOLEAN
    /\ pendingOperations = <<>>
    /\ drains = <<>>
    /\ replayLog = <<>>
    /\ failures = 0
    /\ InitTasksEmpty

NextWrites ==
    \/ GoOnline
    \/ GoOffline
    \/ \E title \in Titles, ok \in BOOLEAN : AddTaskDb(title, ok)
    \/ \E i \in DOMAIN tasks, title \in Titles, ok \in BOOLEAN :
         UpdateTaskDb([tasks[i] EXCEPT !.title = title], ok)
    \/ \E i \in DOMAIN tasks, ok \in BOOLEAN : DeleteTaskDb(tasks[i].id, ok)

SpecWrites == InitWrites /\ [][NextWrites]_vars

\* Under SpecWrites the queue stays empty and the effect never starts a drain.
NoDrainStarts == pendingOperations = <<>> /\ drains = <<>> /\ replayLog = <<>>

(***************************************************************************)
(* Claims about the queue.                                                 *)
(***************************************************************************)
\* The number of remote calls the drains have issued for the mutation uid.
Replays(uid) ==
    Cardinality({n \in DOMAIN replayLog : replayLog[n].r = uid /\ replayLog[n].e = "start"})

AllDrainsDone == \A d \in DOMAIN drains : DrainDone(drains[d])

\* C1 (as claimed): a step in which a write handler is called while the client
\* is offline appends a record for that mutation to pendingOperations, and the
\* handler does not reject.
C1_OfflineWriteIsQueued ==
    [][\A m \in offlineIssued' \ offlineIssued :
          /\ pendingOperations' = Append(pendingOperations, m)
          /\ ~thrown']_vars

\* C2 (as claimed): once the client is online again and no drain is running,
\* every add-task mutation that was issued offline has been replayed exactly
\* once and the queue is empty.
C2_OfflineAddReplayedOnce ==
    \A m \in offlineIssued :
        (m.type = "add" /\ m.entity = "task" /\ isOnline /\ AllDrainsDone)
            => (Replays(m.uid) = 1 /\ pendingOperations = <<>>)

PosIn(batch, uid) == CHOOSE i \in DOMAIN batch : batch[i].uid = uid

MsPerMinute == 60000

MaxClock == 2        \* the clock reads 0 .. MaxClock half minutes
MaxCalls == 2        \* time-tracking handlers called in one behaviour
MaxDuration == 1     \* longest duration (minutes) entered by hand

Instants == {k * (MsPerMinute \div 2) : k \in 0..MaxClock}

Date(ms) == [ms |-> ms]

GetTime(date) == date.ms

ToISOString(date) == [iso |-> date.ms]

\* new Date(text) for a text written by toISOString.
ParseDate(text) == [ms |-> text.iso]

\* Math.floor((endTime.getTime() - startTime.getTime()) / 60000)
ElapsedMinutes(startTime, endTime) == (GetTime(endTime) - GetTime(startTime)) \div MsPerMinute

TimeTracking(id, taskId, startTime, endTime, duration) ==
    [id |-> id, taskId |-> taskId, startTime |-> startTime, endTime |-> endTime,
     duration |-> duration]

\* A row of the remote table `time_trackings`.
TrackingRow(id, task_id, start_time, end_time, duration) ==
    [id |-> id, task_id |-> task_id, start_time |-> start_time, end_time |-> end_time,
     duration |-> duration]

\* The mapping of a returned row to a TimeTracking.
TrackingOfRow(row) ==
    TimeTracking(row.id, row.task_id, ParseDate(row.start_time),
                 IF row.end_time = Null THEN Null ELSE ParseDate(row.end_time),
                 row.duration)

\* data.map(...) over the returned rows.
TrackingsOfRows(rows) == [i \in DOMAIN rows |-> TrackingOfRow(rows[i])]

TasksOfRows(rows) == [i \in DOMAIN rows |-> TaskOfRow(rows[i])]

\* The rows a select returns, in the order of their ids.
RECURSIVE SortById(_)
SortById(rows) ==
    IF rows = {} THEN <<>>
    ELSE LET first == CHOOSE r \in rows : \A q \in rows : r.id <= q.id
         IN  <<first>> \o SortById(rows \ {first})

\* tasks.find(t => t.id === id): the first task of the list with that id, or Null.
FindTask(list, id) ==
    LET found == {i \in DOMAIN list : list[i].id = id}
    IN  IF found = {} THEN Null
        ELSE list[CHOOSE i \in found : \A j \in found : i <= j]

\* The state a tracking handler works on: the client's lists and the remote
\* tables, whether one of its remote calls has failed, and the collection it
\* has reloaded last.
Cur ==
    [tasks |-> tasks, remoteTasks |-> remoteTasks,
     active |-> activeTimeTracking, list |-> timeTrackings,
     rows |-> remoteTrackings, failed |-> remoteFailed, reloaded |-> "none"]

Failed(st) == [st EXCEPT !.failed = TRUE]

Assign(st) ==
    /\ tasks' = st.tasks
    /\ remoteTasks' = st.remoteTasks
    /\ activeTimeTracking' = st.active
    /\ timeTrackings' = st.list
    /\ remoteTrackings' = st.rows
    /\ remoteFailed' = st.failed
    /\ reloaded' = st.reloaded


LoadTimeTrackingsResetting(st, ok) ==
    IF ~ok THEN {Failed([st EXCEPT !.active = Null, !.list = <<>>,
                                   !.reloaded = "time_trackings failed"])}
    ELSE LET all == TrackingsOfRows(SortById(st.rows))
             open == {i \in DOMAIN all : all[i].endTime = Null}
         IN  IF open = {}
             THEN {[st EXCEPT !.active = Null, !.list = all, !.reloaded = "time_trackings"]}
             ELSE {[st EXCEPT !.active = all[i],
                              !.list = SelectSeq(all, LAMBDA t : t.endTime # Null),
                              !.reloaded = "time_trackings"] :
                   i \in open}

\* loadTimeTrackings: the first returned row without end_time becomes the
\* active entry and the completed rows the list; with no such row the list is
\* every row.  The select names no order, so any open row can come first.
LoadTimeTrackingsOn(st, ok) ==
    IF ~ok THEN {Failed([st EXCEPT !.reloaded = "time_trackings failed"])}
    ELSE LET all == TrackingsOfRows(SortById(st.rows))
             open == {i \in DOMAIN all : all[i].endTime = Null}
         IN  IF open = {}
             THEN {[st EXCEPT !.active = Null, !.list = all, !.reloaded = "time_trackings"]}
             ELSE {[st EXCEPT !.active = all[i],
                              !.list = SelectSeq(all, LAMBDA t : t.endTime # Null),
                              !.reloaded = "time_trackings"] :
                   i \in open}

LoadTasksKeepingLocal(st, ok) ==
    IF ~ok THEN Failed([st EXCEPT !.reloaded = "tasks failed"])
    ELSE [st EXCEPT !.reloaded = "tasks"]

\* loadTasks: the list becomes the returned rows.
LoadTasksOn(st, ok) ==
    IF ~ok THEN Failed([st EXCEPT !.reloaded = "tasks failed"])
    ELSE [st EXCEPT !.tasks = TasksOfRows(SortById(st.remoteTasks)), !.reloaded = "tasks"]

\* updateTaskDb called from a tracking handler whose render saw the list `seen`.
UpdateTaskDbOn(st, seen, task, ok) ==
    IF ~ok THEN Failed(st)
    ELSE [st EXCEPT !.remoteTasks = UpdateRow(st.remoteTasks, RowOfTask(task)),
                    !.tasks = ReplaceTask(seen, task)]

\* stopTimeTrackingDb with the clock reading t.  Its remote calls are, in
\* order, the update of the entry, updateTaskDb and loadTimeTrackings; failAt
\* is the one that fails (0: none), which ends the handler in its catch.
StopTimeTrackingDbOn(st, t, failAt) ==
    IF st.active = Null THEN {st}
    ELSE LET active == st.active
             okEntry == failAt # 1
             okTask == failAt # 2
             okLoad == failAt # 3
             endTime == Date(t)
             duration == ElapsedMinutes(active.startTime, endTime)
             row(r) == IF r.id = active.id
                       THEN [r EXCEPT !.end_time = ToISOString(endTime), !.duration = duration]
                       ELSE r
             st1 == [st EXCEPT !.rows = {row(r) : r \in st.rows}]
             task == FindTask(st.tasks, active.taskId)
             st2 == IF task = Null THEN st1
                    ELSE UpdateTaskDbOn(st1, st.tasks,
                                        [task EXCEPT !.timeTracked = task.timeTracked + duration],
                                        okTask)
         IN  IF ~okEntry THEN {Failed(st)}
             ELSE IF task # Null /\ ~okTask THEN {st2}
             ELSE LoadTimeTrackingsOn([st2 EXCEPT !.active = Null], okLoad)

\* The remote calls one run of stopTimeTrackingDb issues: all of them are inside
\* if (activeTimeTracking), and a failing one ends the handler in its catch.
StopTimeTrackingDbCalls(st, failAt) ==
    IF st.active = Null THEN 0
    ELSE IF failAt = 1 THEN 1
    ELSE IF FindTask(st.tasks, st.active.taskId) = Null THEN 2
    ELSE IF failAt = 2 THEN 2
    ELSE 3

\* The insert of startTimeTrackingDb and what follows it.
InsertActiveOn(st, taskId, t, ok) ==
    IF ~ok THEN Failed(st)
    ELSE LET row == TrackingRow(nextTrackingId, taskId, ToISOString(Date(t)), Null, 0)
         IN  [st EXCEPT !.rows = st.rows \cup {row},
                        !.active = TimeTracking(row.id, row.task_id, ParseDate(row.start_time),
                                                Null, 0),
                        !.reloaded = "none"]


\* The outcomes a remote call can have: offline it fails.
Outcomes == IF isOnline THEN BOOLEAN ELSE {FALSE}

dbRest == <<queueVars, thrown, idVars>>

\* What the stop handlers leave alone; they record their call in lastCall.
stopRest == <<queueVars, thrown, storedMapping, storedTasks, uuids, run, resolved, serviceVars>>

issued == <<nextUid, offlineIssued>>

\* The calls that can fail in stopTimeTrackingDb.
StopFailures == IF isOnline THEN 0..3 ELSE {1}

\* A change notification of the channel public:time_trackings.
LoadTimeTrackings(ok) ==
    /\ \E st \in LoadTimeTrackingsOn(Cur, ok) : Assign(st)
    /\ UNCHANGED <<dbRest, issued, nextTrackingId>>

\* A change notification of the channel public:tasks.
LoadTasks(ok) ==
    /\ Assign(LoadTasksOn(Cur, ok))
    /\ UNCHANGED <<dbRest, issued, nextTrackingId>>

\* startTimeTrackingDb: with an entry active it awaits stopTimeTrackingDb, which
\* never rejects, and then inserts the new row whatever the stop did.
StartTimeTrackingDb(taskId, t, failAt, okInsert) ==
    /\ IssueUpTo(MaxCalls, "add", "timeTracking")
    /\ activeTimeTracking = Null => failAt = 0
    /\ \E st \in StopTimeTrackingDbOn(Cur, t, failAt) :
         Assign(InsertActiveOn(st, taskId, t, okInsert))
    /\ nextTrackingId' = IF okInsert THEN nextTrackingId + 1 ELSE nextTrackingId
    /\ UNCHANGED dbRest

StopTimeTrackingDb(t, failAt) ==
    /\ IssueUpTo(MaxCalls, "update", "timeTracking")
    /\ \E st \in StopTimeTrackingDbOn(Cur, t, failAt) :
         /\ Assign(st)
         /\ lastCall' = [op |-> "stopTimeTrackingDb", before |-> Cur, after |-> st,
                         failAt |-> failAt,
                         calls |-> StopTimeTrackingDbCalls(Cur, failAt)]
    /\ UNCHANGED <<stopRest, nextTrackingId>>

\* addTimeTrackingDb: insert the row, append the entry, add its duration to the task.
AddTimeTrackingDb(timeTracking, okInsert, okTask) ==
    /\ IssueUpTo(MaxCalls, "add", "timeTracking")
    /\ LET row == TrackingRow(nextTrackingId, timeTracking.taskId,
                              ToISOString(timeTracking.startTime),
                              IF timeTracking.endTime = Null THEN Null
                              ELSE ToISOString(timeTracking.endTime),
                              timeTracking.duration)
           st1 == [Cur EXCEPT !.rows = remoteTrackings \cup {row},
                              !.list = Append(timeTrackings, TrackingOfRow(row))]
           task == FindTask(tasks, timeTracking.taskId)
       IN  Assign(IF ~okInsert THEN Failed(Cur)
                  ELSE IF task = Null THEN st1
                  ELSE UpdateTaskDbOn(st1, tasks,
                         [task EXCEPT !.timeTracked = task.timeTracked + timeTracking.duration],
                         okTask))
    /\ nextTrackingId' = IF okInsert THEN nextTrackingId + 1 ELSE nextTrackingId
    /\ UNCHANGED dbRest

\* updateTimeTrackingDb: update the row, replace the entry in the list.
UpdateTimeTrackingDb(timeTracking, ok) ==
    /\ IssueUpTo(MaxCalls, "update", "timeTracking")
    /\ Assign(IF ~ok THEN Failed(Cur)
              ELSE [Cur EXCEPT
                      !.rows = {IF r.id = timeTracking.id
                                THEN [r EXCEPT !.start_time = ToISOString(timeTracking.startTime),
                                               !.end_time = IF timeTracking.endTime = Null THEN Null
                                                            ELSE ToISOString(timeTracking.endTime),
                                               !.duration = timeTracking.duration]
                                ELSE r : r \in remoteTrackings},
                      !.list = [i \in DOMAIN timeTrackings |->
                                  IF timeTrackings[i].id = timeTracking.id THEN timeTracking
                                  ELSE timeTrackings[i]]])
    /\ UNCHANGED <<dbRest, nextTrackingId>>

\* deleteTimeTrackingDb: delete the row, filter the list.
DeleteTimeTrackingDb(timeTrackingId, ok) ==
    /\ IssueUpTo(MaxCalls, "delete", "timeTracking")
    /\ Assign(IF ~ok THEN Failed(Cur)
              ELSE [Cur EXCEPT
                      !.rows = {r \in remoteTrackings : r.id # timeTrackingId},
                      !.list = SelectSeq(timeTrackings, LAMBDA t : t.id # timeTrackingId)])
    /\ UNCHANGED <<dbRest, nextTrackingId>>

(***************************************************************************)
(* SpecDb: the provider after its initial load of a store that holds two   *)
(* tasks and no time-tracking rows, online, with the change notifications  *)
(* and the time-tracking handlers.  A handler call                         *)
(* runs to its end before the next step.                                   *)
(***************************************************************************)
TaskIds == {1, 2}

\* The entries the dialogs pass to addTimeTrackingDb: a start, an end, a duration.
ManualEntries ==
    {TimeTracking(0, id, Date(0), Date(d * MsPerMinute), d) : id \in TaskIds, d \in 1..MaxDuration}

InitDb ==
    /\ isOnline = TRUE
    /\ pendingOperations = <<>>
    /\ drains = <<>>
    /\ replayLog = <<>>
    /\ failures = 0
    /\ remoteTasks = {TaskRow(id, "t1", 0) : id \in TaskIds}
    /\ tasks = TasksOfRows(SortById(remoteTasks))
    /\ thrown = FALSE
    /\ nextUid = 1
    /\ offlineIssued = {}
    /\ InitTrackingIdle

NextDb ==
    \/ \E ok \in Outcomes : LoadTimeTrackings(ok)
    \/ \E ok \in Outcomes : LoadTasks(ok)
    \/ \E id \in TaskIds, t \in Instants, failAt \in StopFailures, okInsert \in Outcomes :
         StartTimeTrackingDb(id, t, failAt, okInsert)
    \/ \E t \in Instants, failAt \in StopFailures : StopTimeTrackingDb(t, failAt)
    \/ \E e \in ManualEntries, okInsert \in Outcomes, okTask \in Outcomes :
         AddTimeTrackingDb(e, okInsert, okTask)
    \/ \E i \in DOMAIN timeTrackings, d \in 0..MaxDuration, ok \in Outcomes :
         UpdateTimeTrackingDb([timeTrackings[i] EXCEPT !.duration = d], ok)
    \/ \E i \in DOMAIN timeTrackings, ok \in Outcomes :
         DeleteTimeTrackingDb(timeTrackings[i].id, ok)

SpecDb == InitDb /\ [][NextDb]_vars


(***************************************************************************)
(* Claims about the tracked-minutes aggregate, as SupabaseTaskProvider     *)
(* keeps it.                                                               *)
(***************************************************************************)
RECURSIVE SumDurations(_, _)
SumDurations(list, taskId) ==
    IF list = <<>> THEN 0
    ELSE (IF Head(list).taskId = taskId THEN Head(list).duration ELSE 0)
         + SumDurations(Tail(list), taskId)

AtLeastZero(n) == IF n < 0 THEN 0 ELSE n

\* C4 (as claimed): while no remote call has failed, the tracked minutes of
\* every task are the sum of the durations of the entries recorded for it.
C4_TrackedIsSumOfEntries ==
    ~remoteFailed =>
        \A i \in DOMAIN tasks :
            tasks[i].timeTracked = SumDurations(timeTrackings, tasks[i].id)

\* C5 (as claimed): the tracked minutes of every task are at least 0 in every
\* reachable state.
C5_TrackedNeverNegative == \A i \in DOMAIN tasks : tasks[i].timeTracked >= 0

\* C6 (as claimed): the remote store never holds more than one entry without
\* an end instant.
C6_AtMostOneOpenEntry ==
    Cardinality({r \in remoteTrackings : r.end_time = Null}) <= 1

\* C8 (as claimed): a step that stops an entry (writes its end instant) writes
\* a duration that is not negative, and 0 when the end is before the start.
C8_StopDurationClamped ==
    [][\A r \in remoteTrackings, q \in remoteTrackings' :
          (q.id = r.id /\ r.end_time = Null /\ q.end_time # Null) =>
              /\ q.duration >= 0
              /\ q.end_time.iso < q.start_time.iso => q.duration = 0]_vars

\* C10 (as claimed): a step that changes the duration of a recorded entry
\* changes the tracked minutes of the owning task by the difference, and not
\* below 0.
C10_EditAdjustsTracked ==
    [][\A i \in DOMAIN timeTrackings, j \in DOMAIN timeTrackings' :
          (timeTrackings'[j].id = timeTrackings[i].id
             /\ timeTrackings'[j].duration # timeTrackings[i].duration) =>
              \A k \in DOMAIN tasks :
                  tasks[k].id = timeTrackings[i].taskId =>
                      FindTask(tasks', tasks[k].id).timeTracked =
                          AtLeastZero(tasks[k].timeTracked + timeTrackings'[j].duration
                                        - timeTrackings[i].duration)]_vars


(***************************************************************************)
(* The nested task forest: TaskHelpers, useTaskActions.updateTask and the  *)
(* time-tracking handlers of TimeTrackingProvider.                         *)
(*                                                                         *)
(* Here `tasks` is the forest of TaskContextProvider: a list of root tasks *)
(* whose children lists hold the nested ones.  Identifiers that match the  *)
(* UUID pattern are the positive integers; any other integer is a legacy   *)
(* identifier.  An absent parentId is Null, a present one is Ref(id).      *)
(***************************************************************************)
Ref(id) == [id |-> id]

Node(id, parentId, children) ==
    [id |-> id, title |-> "t1", parentId |-> parentId, timeTracked |-> 0,
     children |-> children]

\* isValidUUID: the test of the identifier against the UUID pattern.
IsValidUUID(id) == id > 0

\* findTaskById: depth first, a task before its children, first match.
RECURSIVE FindTaskById(_, _)
FindTaskById(taskId, taskList) ==
    IF taskList = <<>> THEN Null
    ELSE LET task == Head(taskList)
             foundTask == IF Len(task.children) > 0
                          THEN FindTaskById(taskId, task.children)
                          ELSE Null
         IN  IF task.id = taskId THEN task
             ELSE IF foundTask # Null THEN foundTask
             ELSE FindTaskById(taskId, Tail(taskList))

\* The tasks of a forest.
RECURSIVE AllTasks(_)
AllTasks(taskList) ==
    IF taskList = <<>> THEN {}
    ELSE {Head(taskList)} \cup AllTasks(Head(taskList).children) \cup AllTasks(Tail(taskList))

UpdateTaskAtRoots(taskId, updateFn, taskList) ==
    [i \in DOMAIN taskList |->
        IF taskList[i].id = taskId THEN updateFn[taskList[i]] ELSE taskList[i]]

UpdateEveryRootTask(taskId, updateFn, taskList) ==
    [i \in DOMAIN taskList |-> updateFn[taskList[i]]]

\* updateTaskInHierarchy: map over the list; a matching task becomes
\* updateFn(task), any other is copied with its children mapped.  updateFn
\* is given as a function on the tasks of the forest.
RECURSIVE UpdateTaskInHierarchy(_, _, _)
UpdateTaskInHierarchy(taskId, updateFn, taskList) ==
    [i \in DOMAIN taskList |->
        IF taskList[i].id = taskId THEN updateFn[taskList[i]]
        ELSE [taskList[i] EXCEPT
                !.children = UpdateTaskInHierarchy(taskId, updateFn, taskList[i].children)]]

GetRootTasks(list) == SelectSeq(list, LAMBDA task : task.parentId = Null)

\* useTaskActions.updateTask(task); getCurrentTasks() is the list of the render
\* the handler runs in.  ok is the outcome of its remote update, which is only
\* logged.
UpdateTaskOn(st, task, ok) ==
    IF ~IsValidUUID(task.id) THEN st
    ELSE LET st1 == [st EXCEPT !.tasks =
                        IF task.parentId # Null
                        THEN UpdateTaskInHierarchy(task.id,
                                                   [t \in AllTasks(st.tasks) |-> task],
                                                   GetRootTasks(st.tasks))
                        ELSE ReplaceTask(st.tasks, task)]
         IN  IF ok THEN [st1 EXCEPT !.remoteTasks = UpdateRow(st.remoteTasks, RowOfTask(task))]
             ELSE Failed(st1)

\* updateTaskTimeTracked: for a task with a parent the forest is rebuilt with
\* the minutes added and updateTask is given updatedTasks[0].
UpdateTaskTimeTrackedOn(st, taskId, additionalMinutes, ok) ==
    LET task == FindTaskById(taskId, GetRootTasks(st.tasks))
    IN  IF task = Null THEN st
        ELSE IF task.parentId # Null
        THEN LET updatedTasks ==
                     UpdateTaskInHierarchy(
                         taskId,
                         [t \in AllTasks(st.tasks) |->
                            [t EXCEPT !.timeTracked = t.timeTracked + additionalMinutes]],
                         GetRootTasks(st.tasks))
             IN  UpdateTaskOn(st, updatedTasks[1], ok)
        ELSE UpdateTaskOn(st, [task EXCEPT !.timeTracked = task.timeTracked + additionalMinutes], ok)


\* stopTimeTracking without its error path: the active entry is cleared
\* whatever the remote update answers.
StopTimeTrackingClearing(st, t, failAt) ==
    IF st.active = Null THEN {st}
    ELSE {[st EXCEPT !.active = Null]}

\* The remote calls one run of stopTimeTracking issues: all of them are inside
\* if (activeTimeTracking); the failure of the first ends the handler, and
\* updateTask issues its update for a canonical identifier only.
StopTimeTrackingCalls(st, failAt) ==
    IF st.active = Null THEN 0
    ELSE IF failAt = 1 THEN 1
    ELSE LET task == FindTaskById(st.active.taskId, GetRootTasks(st.tasks))
         IN  IF task # Null /\ IsValidUUID(task.id) THEN 3 ELSE 2

\* TimeTrackingProvider.stopTimeTracking with the clock reading t.  Its remote
\* calls are the update of the entry (1), the update issued by updateTask (2)
\* and loadTimeTrackings (3); failAt is the one that fails.  Only the failure
\* of the first makes the handler reject.
StopTimeTrackingOn(st, t, failAt) ==
    IF st.active = Null THEN {st}
    ELSE LET active == st.active
             endTime == Date(t)
             duration == ElapsedMinutes(active.startTime, endTime)
             row(r) == IF r.id = active.id
                       THEN [r EXCEPT !.end_time = ToISOString(endTime), !.duration = duration]
                       ELSE r
             st1 == [st EXCEPT !.rows = {row(r) : r \in st.rows}]
             task == FindTaskById(active.taskId, GetRootTasks(st.tasks))
             st2 == IF task # Null
                    THEN UpdateTaskTimeTrackedOn(st1, active.taskId, duration, failAt # 2)
                    ELSE st1
         IN  IF failAt = 1 THEN {Failed(st)}
             ELSE LoadTimeTrackingsOn([st2 EXCEPT !.active = Null], failAt # 3)

\* TimeTrackingProvider.startTimeTracking.  After the stop of an active entry
\* it looks the task up remotely; when that select fails it creates the row
\* of the local task, and gives up if there is none or the insert fails.
\* lookup is "selected" (the select succeeds), "created" (it fails and the
\* insert of the task is accepted) or "failed" (both fail).
StartTimeTrackingOn(st, taskId, t, failAt, lookup, okInsert) ==
    LET localTask == FindTaskById(taskId, GetRootTasks(st.tasks))
        created(s) == [s EXCEPT !.remoteTasks = s.remoteTasks \cup {RowOfTask(localTask)}]
        afterStop(s) ==
            IF lookup = "selected" THEN InsertActiveOn(s, taskId, t, okInsert)
            ELSE IF localTask = Null THEN Failed(s)
            ELSE IF lookup = "failed" \/ (\E r \in s.remoteTasks : r.id = localTask.id)
            THEN Failed(s)
            ELSE InsertActiveOn(Failed(created(s)), taskId, t, okInsert)
    IN  IF ~IsValidUUID(taskId) THEN {st}
        ELSE IF st.active # Null /\ failAt = 1 THEN {Failed(st)}
        ELSE {afterStop(s) : s \in StopTimeTrackingOn(st, t, failAt)}

\* useTimeTrackingActions.addTimeTracking: the entry joins the list.
AddTimeTrackingToList(list, timeTracking) == Append(list, timeTracking)

\* TimeTrackingProvider.addTimeTracking.
AddTimeTrackingOn(st, timeTracking, okInsert, okTask) ==
    LET task == FindTaskById(timeTracking.taskId, GetRootTasks(st.tasks))
        row == TrackingRow(nextTrackingId, task.id,
                           ToISOString(timeTracking.startTime),
                           IF timeTracking.endTime = Null THEN Null
                           ELSE ToISOString(timeTracking.endTime),
                           timeTracking.duration)
        st1 == [st EXCEPT !.rows = st.rows \cup {row},
                          !.list = AddTimeTrackingToList(st.list, TrackingOfRow(row))]
    IN  IF task = Null THEN st
        ELSE IF ~IsValidUUID(task.id) THEN st
        ELSE IF ~okInsert THEN Failed(st)
        ELSE UpdateTaskTimeTrackedOn(st1, task.id, timeTracking.duration, okTask)

\* useTimeTrackingActions.deleteTimeTracking: the entry leaves the list.
DeleteTimeTrackingFromList(list, timeTrackingId) ==
    SelectSeq(list, LAMBDA t : t.id # timeTrackingId)

\* TimeTrackingProvider.deleteTimeTracking: delete the row, then the entry.
DeleteTimeTrackingOn(st, timeTrackingId, ok) ==
    IF ~ok THEN Failed(st)
    ELSE [st EXCEPT !.rows = {r \in st.rows : r.id # timeTrackingId},
                    !.list = DeleteTimeTrackingFromList(st.list, timeTrackingId)]

\* The id the store gives the next row, once the rows are `rows`.
NextIdAfter(rows) ==
    IF \E r \in rows : r.id = nextTrackingId THEN nextTrackingId + 1 ELSE nextTrackingId

StartTimeTracking(taskId, t, failAt, lookup, okInsert) ==
    /\ IssueUpTo(MaxCalls, "add", "timeTracking")
    /\ activeTimeTracking = Null => failAt = 0
    /\ \E st \in StartTimeTrackingOn(Cur, taskId, t, failAt, lookup, okInsert) :
         /\ Assign(st)
         /\ nextTrackingId' = NextIdAfter(st.rows)
    /\ UNCHANGED dbRest

StopTimeTracking(t, failAt) ==
    /\ IssueUpTo(MaxCalls, "update", "timeTracking")
    /\ \E st \in StopTimeTrackingOn(Cur, t, failAt) :
         /\ Assign(st)
         /\ lastCall' = [op |-> "stopTimeTracking", before |-> Cur, after |-> st,
                         failAt |-> failAt,
                         calls |-> StopTimeTrackingCalls(Cur, failAt)]
    /\ UNCHANGED <<stopRest, nextTrackingId>>

AddTimeTracking(timeTracking, okInsert, okTask) ==
    /\ IssueUpTo(MaxCalls, "add", "timeTracking")
    /\ LET st == AddTimeTrackingOn(Cur, timeTracking, okInsert, okTask)
       IN  /\ Assign(st)
           /\ nextTrackingId' = NextIdAfter(st.rows)
    /\ UNCHANGED dbRest


DeleteTimeTracking(timeTrackingId, ok) ==
    /\ IssueUpTo(MaxCalls, "delete", "timeTracking")
    /\ Assign(DeleteTimeTrackingOn(Cur, timeTrackingId, ok))
    /\ UNCHANGED <<dbRest, nextTrackingId>>

(***************************************************************************)
(* SpecForest: TaskContextProvider has loaded a forest of three tasks and  *)
(* synchronised it to the remote store, where the insert of the last task  *)
(* failed (which is only logged); the time-tracking handlers of            *)
(* TimeTrackingProvider and its change notification follow.  A handler     *)
(* call runs to its end before the next step.                              *)
(***************************************************************************)
Forests ==
    { <<Node(1, Null, <<>>), Node(2, Null, <<Node(3, Ref(2), <<>>)>>)>>,
      <<Node(1, Null, <<Node(3, Ref(1), <<>>)>>), Node(2, Null, <<>>)>>,
      <<Node(1, Null, <<Node(2, Ref(1), <<Node(3, Ref(2), <<>>)>>)>>)>> }

ForestIds == {1, 2, 3}

\* The identifiers the views pass to the handlers: the tasks', a legacy one
\* (0), and a canonical one of a task the forest does not hold (4).
HandlerIds == ForestIds \cup {0, 4}

Lookups == IF isOnline THEN {"selected", "created", "failed"} ELSE {"failed"}

ManualForestEntries ==
    {TimeTracking(0, id, Date(0), Date(d * MsPerMinute), d) :
        id \in HandlerIds, d \in 1..MaxDuration}

InitForest ==
    /\ isOnline = TRUE
    /\ pendingOperations = <<>>
    /\ drains = <<>>
    /\ replayLog = <<>>
    /\ failures = 0
    /\ tasks \in Forests
    /\ remoteTasks = {TaskRow(id, "t1", 0) : id \in ForestIds \ {3}}
    /\ thrown = FALSE
    /\ nextUid = 1
    /\ offlineIssued = {}
    /\ InitTrackingIdle

NextForest ==
    \/ \E ok \in Outcomes : LoadTimeTrackings(ok)
    \/ \E id \in HandlerIds, t \in Instants, failAt \in StopFailures,
          lookup \in Lookups, okInsert \in Outcomes :
         StartTimeTracking(id, t, failAt, lookup, okInsert)
    \/ \E t \in Instants, failAt \in StopFailures : StopTimeTracking(t, failAt)
    \/ \E e \in ManualForestEntries, okInsert \in Outcomes, okTask \in Outcomes :
         AddTimeTracking(e, okInsert, okTask)
    \/ \E i \in DOMAIN timeTrackings, ok \in Outcomes :
         DeleteTimeTracking(timeTrackings[i].id, ok)

SpecForest == InitForest /\ [][NextForest]_vars


(***************************************************************************)
(* Claims about stopping and adding entries for tasks of the forest.       *)
(***************************************************************************)
\* C7 (as claimed): a step that stops an entry (writes its end instant) writes
\* the floored elapsed minutes as its duration and adds exactly that duration
\* to the tracked minutes of the entry's task, wherever the task is in the
\* forest.
C7_StopAddsElapsedMinutes ==
    [][\A r \in remoteTrackings, q \in remoteTrackings' :
          (q.id = r.id /\ r.end_time = Null /\ q.end_time # Null) =>
              /\ q.duration = ElapsedMinutes(ParseDate(q.start_time), ParseDate(q.end_time))
              /\ FindTaskById(r.task_id, tasks) # Null =>
                   FindTaskById(r.task_id, tasks').timeTracked =
                       FindTaskById(r.task_id, tasks).timeTracked + q.duration]_vars

\* C9 (as claimed): a step that adds a completed entry of duration d for a task
\* of the forest adds exactly d to the tracked minutes of that task, wherever
\* the task is in the forest.
C9_ManualAddIncreasesTracked ==
    [][\A q \in remoteTrackings' :
          (/\ q.end_time # Null
           /\ ~(\E r \in remoteTrackings : r.id = q.id)
           /\ FindTaskById(q.task_id, tasks) # Null) =>
              FindTaskById(q.task_id, tasks').timeTracked =
                  FindTaskById(q.task_id, tasks).timeTracked + q.duration]_vars


\* C11 (as claimed): a step that deletes a completed entry of duration d takes
\* d from the tracked minutes of the entry's task, and not below 0.
C11_DeleteDecreasesTracked ==
    [][\A r \in remoteTrackings :
          (/\ r.end_time # Null
           /\ ~(\E q \in remoteTrackings' : q.id = r.id)
           /\ FindTaskById(r.task_id, tasks) # Null) =>
              FindTaskById(r.task_id, tasks').timeTracked =
                  AtLeastZero(FindTaskById(r.task_id, tasks).timeTracked - r.duration)]_vars


(***************************************************************************)
(* SpecReload: the reloads and the timer of SupabaseTaskProvider together   *)
(* with the writes of another session of the same owner, which change rows *)
(* of the remote table `tasks` behind the client's back; the change        *)
(* notifications are what brings them in.                                  *)
(***************************************************************************)
\* Another session renames a task.
ExternalTaskUpdate(id, title) ==
    /\ \E r \in remoteTasks : r.id = id /\ r.title # title
    /\ remoteTasks' = {IF r.id = id THEN [r EXCEPT !.title = title] ELSE r : r \in remoteTasks}
    /\ reloaded' = "none"
    /\ UNCHANGED <<queueVars, tasks, thrown, nextUid, offlineIssued, trackVars, idVars>>

\* The reloads, the timer and the other session.  The timer is started with
\* its remote calls succeeding (their failures are SpecDb's); a stop may fail
\* at any of its calls, which leaves the lists behind the remote rows.
NextReload ==
    \/ \E ok \in Outcomes : LoadTimeTrackings(ok)
    \/ \E ok \in Outcomes : LoadTasks(ok)
    \/ \E id \in TaskIds, t \in Instants : StartTimeTrackingDb(id, t, 0, TRUE)
    \/ \E t \in Instants, failAt \in StopFailures : StopTimeTrackingDb(t, failAt)
    \/ \E id \in TaskIds, title \in Titles : ExternalTaskUpdate(id, title)

SpecReload == InitDb /\ [][NextReload]_vars

(***************************************************************************)
(* Claims about the reloads.                                               *)
(***************************************************************************)
CompletedRows(rows) == {r \in rows : r.end_time # Null}

\* C12: after a reload that succeeded the in-memory collection is the remote
\* rows: the task list is the rows of `tasks`; the entry list is the
\* completed rows of `time_trackings` and the active entry an open row, or
\* null when there is none.
C12_ReloadReplacesCollection ==
    /\ reloaded = "tasks" => tasks = TasksOfRows(SortById(remoteTasks))
    /\ reloaded = "time_trackings" =>
         /\ timeTrackings = TrackingsOfRows(SortById(CompletedRows(remoteTrackings)))
         /\ IF CompletedRows(remoteTrackings) = remoteTrackings
            THEN activeTimeTracking = Null
            ELSE \E r \in remoteTrackings \ CompletedRows(remoteTrackings) :
                     activeTimeTracking = TrackingOfRow(r)

\* C12 witness: a reload of the tasks has just brought in a title that only
\* another session writes.
C12_Witness ==
    /\ reloaded = "tasks"
    /\ \E i \in DOMAIN tasks : tasks[i].title = "t2"

\* C13: a remote read that fails leaves the collection it would have replaced
\* and the active entry exactly as they were: loadTasks the task list,
\* loadTimeTrackings the entry list and activeTimeTracking.
C13_FailedReadKeepsMemory ==
    [][/\ LoadTasks(FALSE) => UNCHANGED tasks
       /\ LoadTimeTrackings(FALSE) =>
            UNCHANGED <<timeTrackings, activeTimeTracking>>]_vars

\* C13 witness: the read of time_trackings has just failed while an entry is
\* active, and the task list differs from the remote rows.
C13_Witness ==
    /\ reloaded = "time_trackings failed"
    /\ activeTimeTracking # Null
    /\ tasks # TasksOfRows(SortById(remoteTasks))

\* C14: a remote write that fails while the client believes it is online
\* keeps the local change made for it and is neither queued nor replayed:
\* after updateTaskDb fails, the list holds the task as the caller passed it,
\* and the queue and the log of replayed calls are as before.
C14_FailedWriteKeepsLocalChange ==
    [][\A i \in DOMAIN tasks, title \in Titles :
          (isOnline /\ UpdateTaskDb([tasks[i] EXCEPT !.title = title], FALSE)) =>
              /\ tasks' = ReplaceTask(tasks, [tasks[i] EXCEPT !.title = title])
              /\ UNCHANGED <<pendingOperations, drains, replayLog>>]_vars

\* C15: a handler called with a task identifier that is not canonical, or
\* whose task the forest does not hold, is rejected before any remote call:
\* the client's state and the remote tables are as before and no remote call
\* has failed.  Stated for startTimeTracking and addTimeTracking.
C15_RejectedBeforeRemoteCall ==
    [][\A id \in HandlerIds :
          (/\ ~IsValidUUID(id) \/ FindTaskById(id, GetRootTasks(tasks)) = Null
           /\ \/ \E t \in Instants, failAt \in StopFailures, lookup \in Lookups,
                     okInsert \in Outcomes :
                    StartTimeTracking(id, t, failAt, lookup, okInsert)
              \/ \E e \in ManualForestEntries, okInsert \in Outcomes, okTask \in Outcomes :
                    e.taskId = id /\ AddTimeTracking(e, okInsert, okTask)) =>
              UNCHANGED <<tasks, timeTrackings, activeTimeTracking,
                          remoteTasks, remoteTrackings, remoteFailed>>]_vars


(***************************************************************************)
(* SpecIds: the identifiers.  Local storage holds a task forest written by *)
(* an older version, with legacy identifiers in it.  The process starts    *)
(* (TaskContextProvider's loader converts the forest), ensureUUID is       *)
(* called, and the process restarts: a restart discards the in-memory      *)
(* state and keeps local storage.  A read or a write of local storage can  *)
(* throw, which the code catches.                                          *)
(***************************************************************************)
MaxUuids == 3
MaxRuns == 2

\* uuidv4: the identifier generated after n others; it is canonical and
\* differs from every identifier generated before.
Uuidv4(n) == 100 + n

\* flattenTasks: a task before its children, in list order.
RECURSIVE FlattenTasks(_)
FlattenTasks(taskList) ==
    IF taskList = <<>> THEN <<>>
    ELSE <<Head(taskList)>> \o FlattenTasks(Head(taskList).children)
                           \o FlattenTasks(Tail(taskList))

\* The loader's idMapping once processTask has visited the forest: uuidv4 is
\* called once for every task whose id is not canonical, the task before its
\* children; n identifiers were generated before.
IdMappingOf(taskList, n) ==
    LET invalid == SelectSeq(FlattenTasks(taskList), LAMBDA task : ~IsValidUUID(task.id))
    IN  [id \in {invalid[i].id : i \in DOMAIN invalid} |->
            Uuidv4(n + (CHOOSE i \in DOMAIN invalid : invalid[i].id = id) - 1)]

\* processTask followed by updateParentIds: a task with a legacy id takes the
\* generated one, and a child's parentId follows its parent's new id.
RECURSIVE ProcessTasks(_, _)
ProcessTasks(taskList, idMapping) ==
    [i \in DOMAIN taskList |->
        LET task == taskList[i]
        IN  [task EXCEPT
               !.id = IF IsValidUUID(@) THEN @ ELSE idMapping[@],
               !.parentId = IF @ # Null /\ @.id \in DOMAIN idMapping
                            THEN Ref(idMapping[@.id]) ELSE @,
               !.children = ProcessTasks(@, idMapping)]]

\* ensureUUID(id) on the stored mapping `stored`, where newId is what uuidv4
\* would return: the identifier returned, the stored mapping afterwards, and
\* whether uuidv4 was called.  A read that throws leaves the mapping empty; a
\* write that throws is only logged.  An absent item reads as the empty
\* mapping.
EnsureUUID(id, stored, okRead, okWrite, newId) ==
    IF IsValidUUID(id) THEN [id |-> id, stored |-> stored, generated |-> FALSE]
    ELSE LET mapping == IF okRead THEN stored ELSE EmptyMapping
         IN  IF id \in DOMAIN mapping
             THEN [id |-> mapping[id], stored |-> stored, generated |-> FALSE]
             ELSE LET added == [x \in DOMAIN mapping \cup {id} |->
                                   IF x = id THEN newId ELSE mapping[x]]
                  IN  [id |-> newId,
                       stored |-> IF okWrite THEN added ELSE stored,
                       generated |-> TRUE]

\* A conversion of the identifier `from` into `to`, made by `by` in the
\* current run; storageOk tells that no access to local storage threw.
Conversion(by, from, to, storageOk) ==
    [by |-> by, from |-> from, to |-> to, run |-> run, storageOk |-> storageOk]

\* A call of ensureUUID while the process runs.
CallEnsureUUID(id, okRead, okWrite) ==
    /\ run > 0
    /\ LET r == EnsureUUID(id, storedMapping, okRead, okWrite, Uuidv4(uuids))
       IN  /\ r.generated => uuids < MaxUuids
           /\ uuids' = IF r.generated THEN uuids + 1 ELSE uuids
           /\ storedMapping' = r.stored
           /\ resolved' = resolved \cup
                 {Conversion("ensureUUID", id, r.id, IsValidUUID(id) \/ (okRead /\ okWrite))}
    /\ reloaded' = "none"
    /\ UNCHANGED <<queueVars, taskVars, trackVars, storedTasks, run, lastCall, serviceVars>>

\* The process starts: the in-memory state of the run before is gone, and the
\* loader reads the stored forest, gives every task with a legacy id a new
\* UUID, sets the task list, stores the forest (okStore: setItem does not
\* throw) and inserts the tasks the remote table lacks (those in `rejected`
\* fail, which is only logged).
LoadData(okStore, rejected) ==
    /\ run < MaxRuns
    /\ LET idMapping == IdMappingOf(storedTasks, uuids)
           count == Cardinality(DOMAIN idMapping)
           finalTasks == ProcessTasks(storedTasks, idMapping)
           allTasks == FlattenTasks(finalTasks)
       IN  /\ uuids + count <= MaxUuids
           /\ rejected \subseteq {allTasks[i].id : i \in DOMAIN allTasks}
           /\ uuids' = uuids + count
           /\ run' = run + 1
           /\ tasks' = finalTasks
           /\ storedTasks' = IF okStore THEN finalTasks ELSE storedTasks
           /\ remoteTasks' = remoteTasks \cup
                 {RowOfTask(allTasks[i]) : i \in
                     {j \in DOMAIN allTasks :
                         /\ allTasks[j].id \notin rejected
                         /\ ~(\E r \in remoteTasks : r.id = allTasks[j].id)}}
           /\ resolved' = resolved \cup
                 {[by |-> "loadData", from |-> id, to |-> idMapping[id],
                   run |-> run + 1, storageOk |-> okStore] : id \in DOMAIN idMapping}
    /\ timeTrackings' = <<>>
    /\ activeTimeTracking' = Null
    /\ remoteFailed' = FALSE
    /\ thrown' = FALSE
    /\ reloaded' = "none"
    /\ UNCHANGED <<queueVars, nextUid, offlineIssued, remoteTrackings, nextTrackingId,
                   storedMapping, lastCall, serviceVars>>

\* The forests an older version has left in local storage.
StoredForests ==
    { <<Node(0, Null, <<Node(-1, Ref(0), <<>>)>>)>>,
      <<Node(0, Null, <<>>), Node(1, Null, <<>>)>>,
      <<Node(1, Null, <<Node(0, Ref(1), <<>>)>>)>> }

\* The identifiers ensureUUID is called with: two legacy ones and a UUID.
ResolveIds == {0, -1, 1}

InitIds ==
    /\ isOnline = TRUE
    /\ pendingOperations = <<>>
    /\ drains = <<>>
    /\ replayLog = <<>>
    /\ failures = 0
    /\ tasks = <<>>
    /\ remoteTasks = {}
    /\ thrown = FALSE
    /\ nextUid = 1
    /\ offlineIssued = {}
    /\ timeTrackings = <<>>
    /\ activeTimeTracking = Null
    /\ remoteTrackings = {}
    /\ nextTrackingId = 1
    /\ remoteFailed = FALSE
    /\ reloaded = "none"
    /\ storedMapping = EmptyMapping
    /\ storedTasks \in StoredForests
    /\ uuids = 0
    /\ run = 0
    /\ resolved = {}
    /\ lastCall = NoCall
    /\ InitServicesIdle

NextIds ==
    \/ \E okStore \in BOOLEAN, rejected \in SUBSET {Uuidv4(0)} : LoadData(okStore, rejected)
    \/ \E id \in ResolveIds, okRead \in BOOLEAN, okWrite \in BOOLEAN :
         CallEnsureUUID(id, okRead, okWrite)

SpecIds == InitIds /\ [][NextIds]_vars

(***************************************************************************)
(* Claims about the identifiers.                                           *)
(***************************************************************************)
\* C16: within a run, every call of ensureUUID with the same legacy
\* identifier returns the same identifier, and it is not the legacy one.
C16_ResolveIsIdempotent ==
    \A a \in resolved, b \in resolved :
        (/\ a.by = "ensureUUID" /\ b.by = "ensureUUID"
         /\ ~IsValidUUID(a.from)
         /\ a.from = b.from /\ a.run = b.run) =>
            a.to = b.to /\ a.to # a.from

\* C17: a legacy identifier converted before a restart, by ensureUUID or by
\* the loader, is converted to the same identifier after the restart, as
\* long as no access to local storage threw in either conversion.
C17_ResolveSurvivesRestart ==
    \A a \in resolved, b \in resolved :
        (/\ ~IsValidUUID(a.from)
         /\ a.from = b.from /\ a.run < b.run
         /\ a.storageOk /\ b.storageOk) =>
            a.to = b.to

\* C18: the stored mapping is append-only: no step removes an entry or
\* changes the identifier it maps to, whether or not the read of the stored
\* mapping throws.
C18_MappingAppendOnly ==
    [][\A x \in DOMAIN storedMapping :
          x \in DOMAIN storedMapping' /\ storedMapping'[x] = storedMapping[x]]_vars

\* C19: ensureUUID returns a canonical identifier as it is and leaves the
\* stored mapping alone; it writes the stored mapping only for a legacy
\* identifier that has no entry there yet.
C19_WritesOnlyOnFirstResolve ==
    [][\A id \in ResolveIds, okRead \in BOOLEAN, okWrite \in BOOLEAN :
          CallEnsureUUID(id, okRead, okWrite) =>
              /\ IsValidUUID(id) =>
                    /\ storedMapping' = storedMapping
                    /\ Conversion("ensureUUID", id, id, TRUE) \in resolved'
              /\ storedMapping' # storedMapping =>
                    ~IsValidUUID(id) /\ id \notin DOMAIN storedMapping]_vars


(***************************************************************************)
(* SpecTree: updateTaskInHierarchy and deleteTaskFromHierarchy applied to  *)
(* forests.  The task list is any forest of MaxNodes tasks in which a      *)
(* task's parent has a smaller id, with the siblings in ascending or in    *)
(* descending order; a caller passes the list and sets it from the result. *)
(***************************************************************************)
MaxNodes == 4

DeleteTaskPruning(taskId, taskList) ==
    [i \in DOMAIN SelectSeq(taskList, LAMBDA task : task.id # taskId) |->
        [SelectSeq(taskList, LAMBDA task : task.id # taskId)[i] EXCEPT !.children = <<>>]]

DeleteTaskFromRoots(taskId, taskList) ==
    SelectSeq(taskList, LAMBDA task : task.id # taskId)

\* deleteTaskFromHierarchy: filter the list; a task with the id is dropped
\* with everything under it, any other task with children gets its children
\* filtered the same way.
RECURSIVE DeleteTaskFromHierarchy(_, _)
DeleteTaskFromHierarchy(taskId, taskList) ==
    IF taskList = <<>> THEN <<>>
    ELSE LET task == Head(taskList)
             rest == DeleteTaskFromHierarchy(taskId, Tail(taskList))
         IN  IF task.id = taskId THEN rest
             ELSE IF Len(task.children) > 0
             THEN <<[task EXCEPT !.children = DeleteTaskFromHierarchy(taskId, @)]>> \o rest
             ELSE <<task>> \o rest

Reverse(list) == [i \in DOMAIN list |-> list[Len(list) + 1 - i]]

\* The forest in which task i is a child of parent[i] (0: a root).
RECURSIVE BuildForest(_, _, _)
BuildForest(parent, p, ascending) ==
    LET nodes == {Node(i, IF p = 0 THEN Null ELSE Ref(p), BuildForest(parent, i, ascending)) :
                     i \in {j \in DOMAIN parent : parent[j] = p}}
    IN  IF ascending THEN SortById(nodes) ELSE Reverse(SortById(nodes))

TreeForests ==
    {BuildForest(parent, 0, ascending) :
        parent \in {f \in [1..MaxNodes -> 0..(MaxNodes - 1)] : \A i \in DOMAIN f : f[i] < i},
        ascending \in BOOLEAN}

\* The list that was passed to deleteTaskFromHierarchy, once the call has
\* returned: filter leaves the list itself alone, but its callback has
\* assigned the filtered children to every task it kept that has children.
ArgumentAfterDelete(taskId, taskList) ==
    [i \in DOMAIN taskList |->
        IF taskList[i].id = taskId THEN taskList[i]
        ELSE IF Len(taskList[i].children) > 0
        THEN [taskList[i] EXCEPT !.children = DeleteTaskFromHierarchy(taskId, @)]
        ELSE taskList[i]]

\* The list that was passed to updateTaskInHierarchy, once the call has
\* returned: map and the object spread build new values and assign nothing.
ArgumentAfterUpdate(taskId, taskList) == taskList

\* The update function a caller passes.  The callers' functions copy the
\* task with a field changed or with its children filtered; the one used
\* here does both: it changes the title and empties the children.
EditedTask(task) == [task EXCEPT !.title = "t2", !.children = <<>>]

UpdateFnOn(taskList) == [task \in AllTasks(taskList) |-> EditedTask(task)]

\* The tasks updateTaskInHierarchy calls updateFn with.
RECURSIVE UpdateFnCalls(_, _)
UpdateFnCalls(taskId, taskList) ==
    IF taskList = <<>> THEN {}
    ELSE (IF Head(taskList).id = taskId THEN {Head(taskList)}
          ELSE UpdateFnCalls(taskId, Head(taskList).children))
         \cup UpdateFnCalls(taskId, Tail(taskList))

\* A caller updates the task in the list it holds and sets the list from the
\* result.
CallUpdateTaskInHierarchy(taskId) ==
    LET returned == UpdateTaskInHierarchy(taskId, UpdateFnOn(tasks), tasks)
    IN  /\ lastCall' = [op |-> "updateTaskInHierarchy", taskId |-> taskId,
                        taskList |-> tasks, returned |-> returned,
                        calls |-> UpdateFnCalls(taskId, tasks),
                        after |-> ArgumentAfterUpdate(taskId, tasks)]
        /\ tasks' = returned
        /\ reloaded' = "none"
        /\ UNCHANGED <<queueVars, remoteTasks, thrown, nextUid, offlineIssued, trackVars,
                       storedMapping, storedTasks, uuids, run, resolved, serviceVars>>

\* A caller deletes the task from the list it holds and sets the list from the
\* result.
CallDeleteTaskFromHierarchy(taskId) ==
    /\ lastCall' = [op |-> "deleteTaskFromHierarchy", taskId |-> taskId, taskList |-> tasks,
                    returned |-> DeleteTaskFromHierarchy(taskId, tasks),
                    after |-> ArgumentAfterDelete(taskId, tasks)]
    /\ tasks' = DeleteTaskFromHierarchy(taskId, tasks)
    /\ reloaded' = "none"
    /\ UNCHANGED <<queueVars, remoteTasks, thrown, nextUid, offlineIssued, trackVars,
                   storedMapping, storedTasks, uuids, run, resolved, serviceVars>>

InitTree ==
    /\ isOnline = TRUE
    /\ pendingOperations = <<>>
    /\ drains = <<>>
    /\ replayLog = <<>>
    /\ failures = 0
    /\ tasks \in TreeForests
    /\ remoteTasks = {}
    /\ thrown = FALSE
    /\ nextUid = 1
    /\ offlineIssued = {}
    /\ InitTrackingIdle

\* The identifiers the callers pass: the tasks' and one no forest holds.
TreeIds == 1..(MaxNodes + 1)

NextTree ==
    \/ \E taskId \in TreeIds : CallDeleteTaskFromHierarchy(taskId)
    \/ \E taskId \in TreeIds : CallUpdateTaskInHierarchy(taskId)

SpecTree == InitTree /\ [][NextTree]_vars

\* The ids of a list of tasks, in its order.
IdsOf(list) == [i \in DOMAIN list |-> list[i].id]

\* C20: for a forest that holds the task t, deleteTaskFromHierarchy(t.id, F)
\* returns a forest without t and without the tasks under t, wherever t is;
\* the other tasks are all there, each with its fields and under its parent,
\* in the order they had.
C20_DeleteRemovesSubtree ==
    lastCall.op = "deleteTaskFromHierarchy" =>
        LET F == lastCall.taskList
            R == lastCall.returned
            t == FindTaskById(lastCall.taskId, F)
            under == {u.id : u \in AllTasks(<<t>>)}
            kept(list) == SelectSeq(IdsOf(list), LAMBDA id : id \notin under)
        IN  t # Null =>
              /\ IdsOf(FlattenTasks(R)) = kept(FlattenTasks(F))
              /\ IdsOf(R) = kept(F)
              /\ \A u \in AllTasks(R) :
                    LET o == FindTaskById(u.id, F)
                    IN  /\ [u EXCEPT !.children = <<>>] = [o EXCEPT !.children = <<>>]
                        /\ IdsOf(u.children) = kept(o.children)

\* C20 witness: the task deleted was nested under a parent, had tasks under
\* it, and siblings that stay.
C20_Witness ==
    /\ lastCall.op = "deleteTaskFromHierarchy"
    /\ LET t == FindTaskById(lastCall.taskId, lastCall.taskList)
       IN  /\ t # Null
           /\ t.parentId # Null
           /\ t.children # <<>>
           /\ Len(FindTaskById(t.parentId.id, lastCall.taskList).children) > 1
           /\ FindTaskById(t.id, tasks) = Null

\* C21: for an identifier that does not occur in the forest,
\* updateTaskInHierarchy returns a forest equal to the one passed, and calls
\* the update function with no task.
C21_UpdateOfAbsentIdIsIdentity ==
    (/\ lastCall.op = "updateTaskInHierarchy"
     /\ FindTaskById(lastCall.taskId, lastCall.taskList) = Null) =>
        lastCall.returned = lastCall.taskList /\ lastCall.calls = {}

\* C21 witness: the update was called on a forest of several tasks, some of
\* them nested, with an identifier none of them has.
C21_Witness ==
    /\ lastCall.op = "updateTaskInHierarchy"
    /\ FindTaskById(lastCall.taskId, lastCall.taskList) = Null
    /\ \E i \in DOMAIN lastCall.taskList : lastCall.taskList[i].children # <<>>
    /\ tasks = lastCall.taskList

\* C22: for an identifier that does not occur in the forest,
\* deleteTaskFromHierarchy returns a forest equal to the one passed.
C22_DeleteOfAbsentIdIsIdentity ==
    (/\ lastCall.op = "deleteTaskFromHierarchy"
     /\ FindTaskById(lastCall.taskId, lastCall.taskList) = Null) =>
        lastCall.returned = lastCall.taskList

\* C22 witness: the delete was called on a forest of several tasks, some of
\* them nested, with an identifier none of them has.
C22_Witness ==
    /\ lastCall.op = "deleteTaskFromHierarchy"
    /\ FindTaskById(lastCall.taskId, lastCall.taskList) = Null
    /\ \E i \in DOMAIN lastCall.taskList : lastCall.taskList[i].children # <<>>
    /\ tasks = lastCall.taskList

\* C23: updateTaskInHierarchy and deleteTaskFromHierarchy leave the forest
\* they were passed as it was: after the call every task of it and every
\* children list is what it was before.
C23_HelpersLeaveArgumentAlone ==
    lastCall.op \in {"updateTaskInHierarchy", "deleteTaskFromHierarchy"} =>
        lastCall.after = lastCall.taskList

\* The ids of the tasks of the forest that lie on the path from a root to the
\* task with the id, that task excluded.
RECURSIVE AncestorIds(_, _)
AncestorIds(taskId, taskList) ==
    IF taskList = <<>> THEN {}
    ELSE LET task == Head(taskList)
         IN  (IF task.id # taskId /\ FindTaskById(taskId, task.children) # Null
              THEN {task.id} \cup AncestorIds(taskId, task.children)
              ELSE {})
             \cup AncestorIds(taskId, Tail(taskList))

\* C24: for a forest with unique identifiers that holds a task t with the
\* id, updateTaskInHierarchy returns a forest with updateFn(t) where t was;
\* every task that is neither t, nor under t, nor above t is there with its
\* whole subtree as before, every task above t has its fields and the same
\* children in the same order, and the order of the tasks is the same.
C24_UpdateReplacesTaskInPlace ==
    lastCall.op = "updateTaskInHierarchy" =>
        LET F == lastCall.taskList
            R == lastCall.returned
            t == FindTaskById(lastCall.taskId, F)
            under == {u.id : u \in AllTasks(t.children)}
            above == AncestorIds(lastCall.taskId, F)
            outside(list) == SelectSeq(IdsOf(list), LAMBDA id : id \notin under)
        IN  t # Null =>
              /\ FindTaskById(t.id, R) = EditedTask(t)
              /\ lastCall.calls = {t}
              /\ IdsOf(R) = IdsOf(F)
              /\ outside(FlattenTasks(R)) = outside(FlattenTasks(F))
              /\ \A o \in AllTasks(F) :
                    (o.id # t.id /\ o.id \notin under) =>
                        LET u == FindTaskById(o.id, R)
                        IN  IF o.id \in above
                            THEN /\ u # Null
                                 /\ [u EXCEPT !.children = <<>>] = [o EXCEPT !.children = <<>>]
                                 /\ IdsOf(u.children) = IdsOf(o.children)
                            ELSE u = o

\* C24 witness: the task updated was nested under a parent and had tasks
\* under it; the list now holds the edited task.
C24_Witness ==
    /\ lastCall.op = "updateTaskInHierarchy"
    /\ LET t == FindTaskById(lastCall.taskId, lastCall.taskList)
       IN  /\ t # Null
           /\ t.parentId # Null
           /\ t.children # <<>>
           /\ t.title = "t1"
           /\ FindTaskById(t.id, tasks) = EditedTask(t)


(***************************************************************************)
(* SpecNest: the task list of SupabaseTaskProvider with the parent of each *)
(* task: addTaskDb with and without a parentId, deleteTaskDb and the       *)
(* reload of the list.                                                     *)
(***************************************************************************)
\* A row of the remote table `tasks` with its parent_id column.
NestedRow(id, parent_id) ==
    [id |-> id, title |-> "t1", time_tracked |-> 0, parent_id |-> parent_id]

\* The mapping of a returned row to a Task in loadTasks and addTaskDb:
\* parentId is the row's parent_id and children is the empty list.
TaskOfNestedRow(row) == Node(row.id, row.parent_id, <<>>)

\* addTaskDb for a task with the parent parentId (Null: none): insert the
\* row, then append the task built from the returned row to the list.
AddTaskDbUnder(parentId, ok) ==
    /\ ok => isOnline
    /\ Issue("add", "task")
    /\ IF ok
       THEN /\ remoteTasks' = remoteTasks \cup {NestedRow(nextUid, parentId)}
            /\ tasks' = Append(tasks, TaskOfNestedRow(NestedRow(nextUid, parentId)))
            /\ thrown' = FALSE
       ELSE /\ thrown' = TRUE
            /\ UNCHANGED <<tasks, remoteTasks>>
    /\ reloaded' = "none"
    /\ UNCHANGED <<queueVars, trackVars, idVars>>

\* loadTasks: the list becomes the returned rows, each mapped to a Task.
LoadNestedTasks(ok) ==
    /\ IF ok
       THEN /\ tasks' = [i \in DOMAIN SortById(remoteTasks) |->
                            TaskOfNestedRow(SortById(remoteTasks)[i])]
            /\ reloaded' = "tasks"
       ELSE /\ tasks' = tasks
            /\ reloaded' = "tasks failed"
    /\ UNCHANGED <<queueVars, remoteTasks, thrown, nextUid, offlineIssued, trackVars, idVars>>

InitNest ==
    /\ isOnline = TRUE
    /\ pendingOperations = <<>>
    /\ drains = <<>>
    /\ replayLog = <<>>
    /\ failures = 0
    /\ InitTasksEmpty

NextNest ==
    \/ GoOnline
    \/ GoOffline
    \/ \E parentId \in {Null} \cup {Ref(tasks[i].id) : i \in DOMAIN tasks}, ok \in BOOLEAN :
         AddTaskDbUnder(parentId, ok)
    \/ \E i \in DOMAIN tasks, ok \in BOOLEAN : DeleteTaskDb(tasks[i].id, ok)
    \/ \E ok \in BOOLEAN : LoadNestedTasks(ok)

SpecNest == InitNest /\ [][NextNest]_vars

\* C25: in every task state reached, a task that has a parent identifier is
\* in the children list of the task with that identifier, exactly once, and
\* no task's identifier occurs among the tasks under it.
C25_ChildrenListsMatchParents ==
    \A u \in AllTasks(tasks) :
        /\ u.parentId # Null =>
              \A p \in AllTasks(tasks) :
                  p.id = u.parentId.id =>
                      Cardinality({i \in DOMAIN p.children : p.children[i].id = u.id}) = 1
        /\ \A d \in AllTasks(u.children) : d.id # u.id


(***************************************************************************)
(* SpecActions: the handlers of useTaskActions as TaskContextProvider      *)
(* wires them: useTaskActions(tasks, setTasks, () => tasks).  A handler    *)
(* runs in one render: getCurrentTasks() is that render's list every time  *)
(* it is read, and setTasks(list) replaces the list the next render shows, *)
(* so the list after the handler is the one its last setTasks was given.   *)
(* Of the fields an edit changes (title, description, priority, notes and  *)
(* estimatedTime, all copied the same way) the title stands for all.       *)
(***************************************************************************)
MsPerDay == 86400000

\* A task with its recurrence fields.  A template has a recurrencePattern.
RecurringTask(id, parentId, children, isRecurring, recurrenceParentId, dueDate) ==
    [id |-> id, title |-> "t1", parentId |-> parentId, timeTracked |-> 0,
     children |-> children, isRecurring |-> isRecurring,
     recurrenceParentId |-> recurrenceParentId, dueDate |-> dueDate,
     recurrenceExceptions |-> <<>>,
     recurrencePattern |-> IF isRecurring THEN [endDate |-> Null] ELSE Null]

\* useTaskActions.deleteTask(taskId); ok is the outcome of its remote delete,
\* which is only logged.
DeleteTaskOn(st, taskId, ok) ==
    LET taskToDelete == FindTaskById(taskId, GetRootTasks(st.tasks))
        st1 == [st EXCEPT !.tasks =
                   IF taskToDelete.parentId # Null
                   THEN UpdateTaskInHierarchy(
                            taskToDelete.parentId.id,
                            [parent \in AllTasks(st.tasks) |->
                               [parent EXCEPT !.children =
                                   SelectSeq(@, LAMBDA child : child.id # taskId)]],
                            GetRootTasks(st.tasks))
                   ELSE RemoveTask(st.tasks, taskId)]
    IN  IF ~IsValidUUID(taskId) THEN st
        ELSE IF taskToDelete = Null THEN st
        ELSE IF ok THEN [st1 EXCEPT !.remoteTasks = {r \in st.remoteTasks : r.id # taskId}]
        ELSE Failed(st1)

\* The calls of updateTask and deleteTask a handler makes.
UpdateTaskCall(task) == [op |-> "updateTask", task |-> task]

DeleteTaskCall(taskId) == [op |-> "deleteTask", taskId |-> taskId]

CallOn(st, call, ok) ==
    IF call.op = "updateTask" THEN UpdateTaskOn(st, call.task, ok)
    ELSE DeleteTaskOn(st, call.taskId, ok)

\* Whether the call returns before its setTasks.
ReturnsEarly(current, call) ==
    IF call.op = "updateTask" THEN ~IsValidUUID(call.task.id)
    ELSE \/ ~IsValidUUID(call.taskId)
         \/ FindTaskById(call.taskId, GetRootTasks(current)) = Null

\* calls[k..], made one after another in the render whose list is current:
\* each reads current and gives setTasks its result; the remote call of
\* call number failAt fails.
RECURSIVE CallsInRender(_, _, _, _, _)
CallsInRender(current, st, calls, failAt, k) ==
    IF k > Len(calls) THEN st
    ELSE CallsInRender(current,
                       IF ReturnsEarly(current, calls[k]) THEN st
                       ELSE CallOn([st EXCEPT !.tasks = current], calls[k], failAt # k),
                       calls, failAt, k + 1)

\* The calls of updateRecurringTask(task, updateMode), allTasks being
\* getCurrentTasks().
UpdateRecurringTaskCalls(task, updateMode, allTasks) ==
    LET parentTask == FindTaskById(task.recurrenceParentId.id, allTasks)
        edited(t) == [t EXCEPT !.title = task.title]
        updatedParent ==
            [edited(parentTask) EXCEPT !.recurrencePattern =
                IF task.recurrencePattern # Null THEN task.recurrencePattern
                ELSE parentTask.recurrencePattern]
        instances == SelectSeq(allTasks,
                               LAMBDA t : t.recurrenceParentId = Ref(parentTask.id))
        later == SelectSeq(allTasks,
                           LAMBDA t : /\ t.recurrenceParentId = Ref(parentTask.id)
                                      /\ t.dueDate # Null
                                      /\ GetTime(t.dueDate) >= GetTime(task.dueDate)
                                      /\ t.id # task.id)
    IN  IF updateMode = "single" \/ task.recurrenceParentId = Null
        THEN <<UpdateTaskCall(task)>>
        ELSE IF parentTask = Null THEN <<>>
        ELSE IF updateMode = "all"
        THEN <<UpdateTaskCall(updatedParent)>>
             \o [i \in DOMAIN instances |-> UpdateTaskCall(edited(instances[i]))]
        ELSE <<UpdateTaskCall(task)>>
             \o (IF task.dueDate = Null THEN <<>>
                 ELSE [i \in DOMAIN later |-> UpdateTaskCall(edited(later[i]))])

\* The calls of deleteRecurringTask(taskId, deleteMode) when new Date() is
\* now, allTasks being getCurrentTasks().
DeleteRecurringTaskCalls(taskId, deleteMode, allTasks, now) ==
    LET taskToDelete == FindTaskById(taskId, allTasks)
        parentTask == FindTaskById(taskToDelete.recurrenceParentId.id, allTasks)
        deletes(list) == [i \in DOMAIN list |-> DeleteTaskCall(list[i].id)]
        instancesOf(id) == SelectSeq(allTasks, LAMBDA t : t.recurrenceParentId = Ref(id))
        instancesFrom(id, date) ==
            SelectSeq(allTasks,
                      LAMBDA t : /\ t.recurrenceParentId = Ref(id)
                                 /\ t.dueDate # Null
                                 /\ GetTime(t.dueDate) >= GetTime(date))
    IN  IF taskToDelete = Null THEN <<>>
        ELSE IF deleteMode = "single"
        THEN IF taskToDelete.recurrenceParentId # Null
             THEN <<DeleteTaskCall(taskId)>>
                  \o (IF /\ taskToDelete.dueDate # Null
                         /\ parentTask # Null
                         /\ parentTask.isRecurring
                      THEN <<UpdateTaskCall(
                                [parentTask EXCEPT !.recurrenceExceptions =
                                    Append(@, taskToDelete.dueDate)])>>
                      ELSE <<>>)
             ELSE IF taskToDelete.isRecurring THEN <<DeleteTaskCall(taskId)>>
             ELSE <<>>
        ELSE IF deleteMode = "future"
        THEN IF taskToDelete.recurrenceParentId # Null
             THEN IF parentTask # Null /\ taskToDelete.dueDate # Null
                  THEN (IF parentTask.recurrencePattern # Null
                        THEN <<UpdateTaskCall(
                                  [parentTask EXCEPT !.recurrencePattern.endDate =
                                      Date(GetTime(taskToDelete.dueDate) - MsPerDay)])>>
                        ELSE <<>>)
                       \o deletes(instancesFrom(parentTask.id, taskToDelete.dueDate))
                  ELSE <<>>
             ELSE IF taskToDelete.isRecurring /\ taskToDelete.dueDate # Null
             THEN (IF taskToDelete.recurrencePattern # Null
                   THEN <<UpdateTaskCall(
                             [taskToDelete EXCEPT !.recurrencePattern.endDate = now])>>
                   ELSE <<>>)
                  \o deletes(instancesFrom(taskToDelete.id, now))
             ELSE <<>>
        ELSE IF taskToDelete.recurrenceParentId # Null
             THEN <<DeleteTaskCall(taskToDelete.recurrenceParentId.id)>>
                  \o deletes(instancesOf(taskToDelete.recurrenceParentId.id))
             ELSE IF taskToDelete.isRecurring
             THEN <<DeleteTaskCall(taskToDelete.id)>>
                  \o deletes(instancesOf(taskToDelete.id))
             ELSE <<>>

actionRest ==
    <<queueVars, thrown, offlineIssued, nextTrackingId,
      storedMapping, storedTasks, uuids, run, resolved, serviceVars>>

UpdateTask(task, ok) ==
    /\ IssueUpTo(MaxCalls, "update", "task")
    /\ Assign(CallsInRender(tasks, Cur, <<UpdateTaskCall(task)>>, IF ok THEN 0 ELSE 1, 1))
    /\ lastCall' = [op |-> "updateTask", st |-> Cur, calls |-> <<UpdateTaskCall(task)>>]
    /\ UNCHANGED actionRest

DeleteTask(taskId, ok) ==
    /\ IssueUpTo(MaxCalls, "delete", "task")
    /\ Assign(CallsInRender(tasks, Cur, <<DeleteTaskCall(taskId)>>, IF ok THEN 0 ELSE 1, 1))
    /\ lastCall' = [op |-> "deleteTask", st |-> Cur, calls |-> <<DeleteTaskCall(taskId)>>]
    /\ UNCHANGED actionRest

UpdateRecurringTask(task, updateMode, failAt) ==
    LET calls == UpdateRecurringTaskCalls(task, updateMode, tasks)
    IN  /\ IssueUpTo(MaxCalls, "update", "task")
        /\ failAt <= Len(calls)
        /\ Assign(CallsInRender(tasks, Cur, calls, failAt, 1))
        /\ lastCall' = [op |-> "updateRecurringTask", st |-> Cur, calls |-> calls,
                        task |-> task, mode |-> updateMode]
        /\ UNCHANGED actionRest

DeleteRecurringTask(taskId, deleteMode, now, failAt) ==
    LET calls == DeleteRecurringTaskCalls(taskId, deleteMode, tasks, now)
    IN  /\ IssueUpTo(MaxCalls, "delete", "task")
        /\ failAt <= Len(calls)
        /\ Assign(CallsInRender(tasks, Cur, calls, failAt, 1))
        /\ lastCall' = [op |-> "deleteRecurringTask", st |-> Cur, calls |-> calls,
                        taskId |-> taskId, mode |-> deleteMode, failAt |-> failAt]
        /\ UNCHANGED actionRest

\* A template (1) with the generated instances 2 and 3, due on the first and
\* second day after the template, and a task that is neither (4); in the
\* second forest instance 3 is a subtask of 4.
Day(d) == Date(d * MsPerDay)

ActionForests ==
    { <<RecurringTask(1, Null, <<>>, TRUE, Null, Day(0)),
        RecurringTask(2, Null, <<>>, FALSE, Ref(1), Day(1)),
        RecurringTask(3, Null, <<>>, FALSE, Ref(1), Day(2)),
        RecurringTask(4, Null, <<>>, FALSE, Null, Null)>>,
      <<RecurringTask(1, Null, <<>>, TRUE, Null, Day(0)),
        RecurringTask(2, Null, <<>>, FALSE, Ref(1), Day(1)),
        RecurringTask(4, Null,
                      <<RecurringTask(3, Ref(4), <<>>, FALSE, Ref(1), Day(2))>>,
                      FALSE, Null, Null)>> }

ActionIds == {0, 1, 2, 3, 4, 5}

\* getCurrentUserId(): the owner identity of this client, and the one of
\* another client that writes to the same tables.
UserId == 1

OtherUserId == 2

\* A row of the remote table `tasks` with its user_id column.
OwnedTaskRow(id, title, time_tracked, user_id) ==
    [id |-> id, title |-> title, time_tracked |-> time_tracked, user_id |-> user_id]

\* A task the list does not hold: the row with its id is the other client's.
ForeignTask == RecurringTask(5, Null, <<>>, FALSE, Null, Null)

Modes == {"single", "future", "all"}

InitActions ==
    /\ isOnline = TRUE
    /\ pendingOperations = <<>>
    /\ drains = <<>>
    /\ replayLog = <<>>
    /\ failures = 0
    /\ tasks \in ActionForests
    /\ remoteTasks = {OwnedTaskRow(id, "t1", 0, UserId) : id \in 1..4}
                     \cup {OwnedTaskRow(ForeignTask.id, "t1", 0, OtherUserId)}
    /\ thrown = FALSE
    /\ nextUid = 1
    /\ offlineIssued = {}
    /\ InitTrackingIdle

NextActions ==
    \/ \E task \in AllTasks(tasks) \cup {ForeignTask}, ok \in BOOLEAN :
         UpdateTask([task EXCEPT !.title = "t2"], ok)
    \/ \E taskId \in ActionIds, ok \in BOOLEAN : DeleteTask(taskId, ok)
    \/ \E task \in AllTasks(tasks), updateMode \in Modes, failAt \in 0..3 :
         UpdateRecurringTask([task EXCEPT !.title = "t2"], updateMode, failAt)
    \/ \E taskId \in ActionIds, deleteMode \in Modes, now \in {Day(1), Day(3)},
          failAt \in 0..3 :
         DeleteRecurringTask(taskId, deleteMode, now, failAt)

SpecActions == InitActions /\ [][NextActions]_vars

\* calls[k..] applied one after another, each to the state the one before
\* it has left.
RECURSIVE CallsInOrder(_, _, _)
CallsInOrder(st, calls, k) ==
    IF k > Len(calls) THEN st
    ELSE CallsInOrder(CallOn(st, calls[k], TRUE), calls, k + 1)

ActionOps == {"updateTask", "deleteTask", "updateRecurringTask", "deleteRecurringTask"}

\* C26: the task list a handler leaves is the list before it with the
\* updateTask and deleteTask calls the handler made applied in call order,
\* every one of them to the result of the one before.
C26_AppliedInCallOrder ==
    lastCall.op \in ActionOps =>
        tasks = CallsInOrder(lastCall.st, lastCall.calls, 1).tasks

\* C27: after updateRecurringTask(task, 'all') on an instance whose template
\* is in the list, the template and every task with the instance's
\* recurrenceParentId carry the edited fields of task.
C27_AllUpdatesTemplateAndInstances ==
    ( /\ lastCall.op = "updateRecurringTask"
      /\ lastCall.mode = "all"
      /\ lastCall.task.recurrenceParentId # Null
      /\ FindTaskById(lastCall.task.recurrenceParentId.id, lastCall.st.tasks) # Null ) =>
        \A t \in AllTasks(tasks) :
            ( \/ t.id = lastCall.task.recurrenceParentId.id
              \/ t.recurrenceParentId = lastCall.task.recurrenceParentId ) =>
                t.title = lastCall.task.title

\* The task deleteRecurringTask was called for, in the list before the call.
DeletedTask == FindTaskById(lastCall.taskId, lastCall.st.tasks)

\* C28: after deleteRecurringTask(id, 'single') on a generated instance with a
\* due date, whose template is in the list, the instance is gone from the
\* list, the template's recurrenceExceptions contain the due date, and every
\* other task is still in the list.
C28_SingleDeleteRecordsException ==
    ( /\ lastCall.op = "deleteRecurringTask"
      /\ lastCall.mode = "single"
      /\ DeletedTask # Null
      /\ DeletedTask.recurrenceParentId # Null
      /\ DeletedTask.dueDate # Null
      /\ FindTaskById(DeletedTask.recurrenceParentId.id, lastCall.st.tasks) # Null ) =>
        /\ FindTaskById(lastCall.taskId, tasks) = Null
        /\ \E i \in DOMAIN FindTaskById(DeletedTask.recurrenceParentId.id, tasks).recurrenceExceptions :
               FindTaskById(DeletedTask.recurrenceParentId.id, tasks).recurrenceExceptions[i]
                   = DeletedTask.dueDate
        /\ {t.id : t \in AllTasks(tasks)}
             = {t.id : t \in AllTasks(lastCall.st.tasks)} \ {lastCall.taskId}

\* C29: deleteRecurringTask(id, 'single') on a task that is neither a template
\* nor an instance leaves the list and the remote table as deleteTask(id)
\* would.
C29_SingleDeleteOfPlainTaskIsDelete ==
    ( /\ lastCall.op = "deleteRecurringTask"
      /\ lastCall.mode = "single"
      /\ DeletedTask # Null
      /\ DeletedTask.recurrenceParentId = Null
      /\ ~DeletedTask.isRecurring ) =>
        /\ tasks = DeleteTaskOn(lastCall.st, lastCall.taskId, TRUE).tasks
        /\ remoteTasks = DeleteTaskOn(lastCall.st, lastCall.taskId, TRUE).remoteTasks

\* C30: the rows of the remote table `tasks` whose user_id is another
\* client's are never read, changed or deleted by this client's handlers:
\* they stay as the other client wrote them.
C30_OtherOwnersRowsUntouched ==
    {r \in remoteTasks : r.user_id # UserId}
        = {OwnedTaskRow(ForeignTask.id, "t1", 0, OtherUserId)}


(***************************************************************************)
(* SpecUser: serviceUtils.getCurrentUserId over local storage, and         *)
(* restarts of the process, which keep local storage.  Reading or writing  *)
(* local storage can throw; the function does not catch, so the call then  *)
(* rejects and returns no identifier.                                      *)
(***************************************************************************)
GetCurrentUserIdForgetting(stored, okRead, okWrite, newId) ==
    IF ~okRead THEN [stored |-> stored, returned |-> <<>>, generated |-> FALSE]
    ELSE IF stored = <<>> \/ ~IsValidUUID(stored[1])
    THEN [stored |-> stored, returned |-> IF okWrite THEN <<newId>> ELSE <<>>,
          generated |-> TRUE]
    ELSE [stored |-> stored, returned |-> stored, generated |-> FALSE]

\* getCurrentUserId: the stored identifier when it is a UUID; otherwise a new
\* one, stored before it is returned.  The item of local storage is <<>> when
\* absent and <<text>> when present; returned is <<>> when the call rejects.
GetCurrentUserIdOn(stored, okRead, okWrite, newId) ==
    IF ~okRead THEN [stored |-> stored, returned |-> <<>>, generated |-> FALSE]
    ELSE IF stored = <<>> \/ ~IsValidUUID(stored[1])
    THEN IF okWrite
         THEN [stored |-> <<newId>>, returned |-> <<newId>>, generated |-> TRUE]
         ELSE [stored |-> stored, returned |-> <<>>, generated |-> TRUE]
    ELSE [stored |-> stored, returned |-> stored, generated |-> FALSE]

GetCurrentUserId(okRead, okWrite) ==
    LET call == GetCurrentUserIdOn(storedUserId, okRead, okWrite, Uuidv4(uuids))
    IN  /\ Len(userIdLog) < MaxWrites
        /\ storedUserId' = call.stored
        /\ uuids' = IF call.generated THEN uuids + 1 ELSE uuids
        /\ userIdLog' = Append(userIdLog, [run |-> run, returned |-> call.returned])
        /\ UNCHANGED <<queueVars, taskVars, trackVars, reloaded, storedMapping,
                       storedTasks, run, resolved, lastCall, cacheVars, flightVars>>

\* The process starts again; local storage is as it was left.
RestartUser ==
    /\ run < MaxRuns
    /\ run' = run + 1
    /\ UNCHANGED <<queueVars, taskVars, trackVars, reloaded, storedMapping,
                   storedTasks, uuids, resolved, lastCall, serviceVars>>

\* What local storage holds under khonja_user_id at the first start: nothing,
\* a text that is no UUID (0), or the UUID an earlier version has stored (7).
StoredUserIds == {<<>>, <<0>>, <<7>>}

InitUser ==
    /\ isOnline = TRUE
    /\ pendingOperations = <<>>
    /\ drains = <<>>
    /\ replayLog = <<>>
    /\ failures = 0
    /\ tasks = <<>>
    /\ remoteTasks = {}
    /\ thrown = FALSE
    /\ nextUid = 1
    /\ offlineIssued = {}
    /\ timeTrackings = <<>>
    /\ activeTimeTracking = Null
    /\ remoteTrackings = {}
    /\ nextTrackingId = 1
    /\ remoteFailed = FALSE
    /\ reloaded = "none"
    /\ storedMapping = EmptyMapping
    /\ storedTasks = <<>>
    /\ uuids = 0
    /\ run = 1
    /\ resolved = {}
    /\ lastCall = NoCall
    /\ storedUserId \in StoredUserIds
    /\ userIdLog = <<>>
    /\ InitCacheEmpty
    /\ InitFlightIdle

NextUser ==
    \/ \E okRead \in BOOLEAN, okWrite \in BOOLEAN : GetCurrentUserId(okRead, okWrite)
    \/ RestartUser

SpecUser == InitUser /\ [][NextUser]_vars

\* The identifiers the getCurrentUserId calls so far have returned.
ReturnedUserIds ==
    {userIdLog[i].returned[1] : i \in {j \in DOMAIN userIdLog : userIdLog[j].returned # <<>>}}

\* C31: all getCurrentUserId calls that return, in whatever run of the
\* process, return one and the same identifier, and it is a UUID.
C31_OwnerIdentityIsStable ==
    /\ Cardinality(ReturnedUserIds) <= 1
    /\ \A id \in ReturnedUserIds : IsValidUUID(id)

\* A generated identifier has been returned in one run and again in a later
\* one.
C31_Witness ==
    \E i \in DOMAIN userIdLog, j \in DOMAIN userIdLog :
        /\ i < j
        /\ userIdLog[i].run < userIdLog[j].run
        /\ userIdLog[i].returned = <<Uuidv4(0)>>
        /\ userIdLog[j].returned = <<Uuidv4(0)>>


(***************************************************************************)
(* SpecCache: the LocalCache.  serviceUtils creates its caches from the    *)
(* class Cache of utils/cache-utils, which the repository does not hold;   *)
(* the operations are those of its description: get, set, invalidate and   *)
(* clear over entries with a value and an insertion instant, kept in the   *)
(* order of their last use.  Capacity and ttl are scaled down.             *)
(***************************************************************************)
CacheCapacity == 2
CacheTtl == 1
\* Enough operations to fill the cache, read an entry and set one more key,
\* and enough time for an entry to expire.
MaxCacheOps == CacheCapacity + 2
MaxCacheClock == CacheTtl + 1

CacheKeys == 1..(CacheCapacity + 1)

CacheEntry(key, value, inserted) == [key |-> key, value |-> value, inserted |-> inserted]

HasKey(entries, key) == \E i \in DOMAIN entries : entries[i].key = key

EntryOf(entries, key) == entries[CHOOSE i \in DOMAIN entries : entries[i].key = key]

WithoutKey(entries, key) == SelectSeq(entries, LAMBDA e : e.key # key)

CacheSetAppending(entries, key, value, now) ==
    Append(WithoutKey(entries, key), CacheEntry(key, value, now))

CacheSetEvictingNewest(entries, key, value, now) ==
    Append(WithoutKey(IF Len(entries) = CacheCapacity
                      THEN SubSeq(entries, 1, Len(entries) - 1)
                      ELSE entries,
                      key),
           CacheEntry(key, value, now))

\* set(key, value): a full cache first loses its least recently used entry;
\* the new entry is the most recently used one.
CacheSetOn(entries, key, value, now) ==
    Append(WithoutKey(IF Len(entries) = CacheCapacity THEN Tail(entries) ELSE entries,
                      key),
           CacheEntry(key, value, now))

CacheGetKeepingExpired(entries, key, now) ==
    IF ~HasKey(entries, key) THEN [entries |-> entries, returned |-> <<>>]
    ELSE [entries |-> Append(WithoutKey(entries, key), EntryOf(entries, key)),
          returned |-> <<EntryOf(entries, key).value>>]

CacheGetWithoutRefresh(entries, key, now) ==
    IF ~HasKey(entries, key) THEN [entries |-> entries, returned |-> <<>>]
    ELSE IF now - EntryOf(entries, key).inserted > CacheTtl
    THEN [entries |-> WithoutKey(entries, key), returned |-> <<>>]
    ELSE [entries |-> entries, returned |-> <<EntryOf(entries, key).value>>]

\* get(key): absent (<<>>) for a key the cache does not hold; an entry older
\* than ttl is removed and absent is returned; otherwise the entry becomes
\* the most recently used one and its value is returned.
CacheGetOn(entries, key, now) ==
    IF ~HasKey(entries, key) THEN [entries |-> entries, returned |-> <<>>]
    ELSE IF now - EntryOf(entries, key).inserted > CacheTtl
    THEN [entries |-> WithoutKey(entries, key), returned |-> <<>>]
    ELSE [entries |-> Append(WithoutKey(entries, key), EntryOf(entries, key)),
          returned |-> <<EntryOf(entries, key).value>>]

cacheRest == <<queueVars, taskVars, trackVars, reloaded, storedMapping, storedTasks,
               uuids, run, resolved, lastCall, userVars, flightVars>>

CacheOp(op, key, value, returned) ==
    [op |-> op, key |-> key, value |-> value, returned |-> returned,
     at |-> cacheClock, before |-> cacheEntries]

\* The value of a set is the number of the operation, so that every set
\* writes a value of its own.
CacheSet(key) ==
    /\ Len(cacheOps) < MaxCacheOps
    /\ cacheEntries' = CacheSetOn(cacheEntries, key, Len(cacheOps) + 1, cacheClock)
    /\ cacheOps' = Append(cacheOps, CacheOp("set", key, Len(cacheOps) + 1, <<>>))
    /\ UNCHANGED <<cacheClock, cacheRest>>

CacheGet(key) ==
    /\ Len(cacheOps) < MaxCacheOps
    /\ cacheEntries' = CacheGetOn(cacheEntries, key, cacheClock).entries
    /\ cacheOps' = Append(cacheOps,
                          CacheOp("get", key, 0, CacheGetOn(cacheEntries, key, cacheClock).returned))
    /\ UNCHANGED <<cacheClock, cacheRest>>

CacheInvalidate(key) ==
    /\ Len(cacheOps) < MaxCacheOps
    /\ cacheEntries' = WithoutKey(cacheEntries, key)
    /\ cacheOps' = Append(cacheOps, CacheOp("invalidate", key, 0, <<>>))
    /\ UNCHANGED <<cacheClock, cacheRest>>

CacheClear ==
    /\ Len(cacheOps) < MaxCacheOps
    /\ cacheEntries' = <<>>
    /\ cacheOps' = Append(cacheOps, CacheOp("clear", 0, 0, <<>>))
    /\ UNCHANGED <<cacheClock, cacheRest>>

\* Time passes between two operations on a cache that holds an entry.
CacheTick ==
    /\ cacheClock < MaxCacheClock
    /\ Len(cacheOps) < MaxCacheOps
    /\ cacheEntries # <<>>
    /\ cacheClock' = cacheClock + 1
    /\ UNCHANGED <<cacheEntries, cacheOps, cacheRest>>

InitCache ==
    /\ isOnline = TRUE
    /\ pendingOperations = <<>>
    /\ drains = <<>>
    /\ replayLog = <<>>
    /\ failures = 0
    /\ InitTasksEmpty

\* The keys are interchangeable, so the callers name them in order: a key
\* that no operation has named yet is the least such key.
NextKeys ==
    {key \in CacheKeys :
        \A less \in 1..(key - 1) : \E i \in DOMAIN cacheOps : cacheOps[i].key = less}

NextCache ==
    \/ \E key \in NextKeys : CacheSet(key)
    \/ \E key \in NextKeys : CacheGet(key)
    \/ \E key \in NextKeys : CacheInvalidate(key)
    \/ CacheClear
    \/ CacheTick

SpecCache == InitCache /\ [][NextCache]_vars

\* C32: a get(k) that follows a set(k, v) with no operation and no time
\* between them returns v; a get(k) on an entry inserted more than ttl ago
\* returns absent and leaves the cache without an entry for k.
C32_CacheRoundTripAndExpiry ==
    \A i \in DOMAIN cacheOps :
        LET get == cacheOps[i]
            after == IF i < Len(cacheOps) THEN cacheOps[i + 1].before ELSE cacheEntries
        IN  get.op = "get" =>
              /\ ( /\ i > 1
                   /\ cacheOps[i - 1].op = "set"
                   /\ cacheOps[i - 1].key = get.key
                   /\ cacheOps[i - 1].at = get.at ) =>
                     get.returned = <<cacheOps[i - 1].value>>
              /\ ( /\ HasKey(get.before, get.key)
                   /\ get.at - EntryOf(get.before, get.key).inserted > CacheTtl ) =>
                     /\ get.returned = <<>>
                     /\ ~HasKey(after, get.key)

\* A get straight after the set of its key has been made, and so has a get
\* of an entry older than ttl.
C32_Witness ==
    /\ \E i \in DOMAIN cacheOps :
          /\ i > 1
          /\ cacheOps[i].op = "get"
          /\ cacheOps[i - 1].op = "set"
          /\ cacheOps[i - 1].key = cacheOps[i].key
          /\ cacheOps[i - 1].at = cacheOps[i].at
    /\ \E i \in DOMAIN cacheOps :
          /\ cacheOps[i].op = "get"
          /\ HasKey(cacheOps[i].before, cacheOps[i].key)
          /\ cacheOps[i].at - EntryOf(cacheOps[i].before, cacheOps[i].key).inserted > CacheTtl

\* The cache after operation number i.
CacheAfter(i) == IF i < Len(cacheOps) THEN cacheOps[i + 1].before ELSE cacheEntries

\* Whether operation number m has used the entry of key: it has set it, or
\* read it.
UsesKey(m, key) ==
    /\ cacheOps[m].key = key
    /\ \/ cacheOps[m].op = "set"
       \/ cacheOps[m].op = "get" /\ cacheOps[m].returned # <<>>

\* The number of the last operation before number i that has used key.
LastUse(i, key) ==
    CHOOSE m \in 1..(i - 1) :
        /\ UsesKey(m, key)
        /\ \A n \in (m + 1)..(i - 1) : ~UsesKey(n, key)

\* The key whose entry, of those the cache holds before operation number i,
\* has been used least recently.
LeastRecentlyUsed(i) ==
    CHOOSE key \in CacheKeys :
        /\ HasKey(cacheOps[i].before, key)
        /\ \A other \in CacheKeys :
               HasKey(cacheOps[i].before, other) => LastUse(i, key) <= LastUse(i, other)

\* C33: the cache never holds more than capacity entries; a set on a full
\* cache removes the least recently used entry, use being a set or a get that
\* found the entry, and keeps the others; and when the first capacity + 1
\* operations set different keys, the key set first is gone after them and
\* the others are held.
C33_CacheEvictsLeastRecentlyUsed ==
    /\ Len(cacheEntries) <= CacheCapacity
    /\ \A i \in DOMAIN cacheOps :
          ( /\ cacheOps[i].op = "set"
            /\ Len(cacheOps[i].before) = CacheCapacity ) =>
              \A key \in CacheKeys :
                  HasKey(CacheAfter(i), key) <=>
                      \/ key = cacheOps[i].key
                      \/ HasKey(cacheOps[i].before, key) /\ key # LeastRecentlyUsed(i)
    /\ ( /\ Len(cacheOps) > CacheCapacity
         /\ \A i \in 1..(CacheCapacity + 1) : cacheOps[i].op = "set"
         /\ \A i, j \in 1..(CacheCapacity + 1) :
                i # j => cacheOps[i].key # cacheOps[j].key ) =>
           \A i \in 1..(CacheCapacity + 1) :
               HasKey(CacheAfter(CacheCapacity + 1), cacheOps[i].key) <=> i # 1

\* A set of a new key on a full cache has evicted another entry than the one
\* set first, because a get had read that one since.
C33_Witness ==
    \E i \in DOMAIN cacheOps, m \in DOMAIN cacheOps :
        /\ 1 < m /\ m < i
        /\ cacheOps[1].op = "set"
        /\ cacheOps[m].op = "get"
        /\ cacheOps[m].key = cacheOps[1].key
        /\ cacheOps[m].returned # <<>>
        /\ cacheOps[i].op = "set"
        /\ Len(cacheOps[i].before) = CacheCapacity
        /\ ~HasKey(cacheOps[i].before, cacheOps[i].key)
        /\ HasKey(CacheAfter(i), cacheOps[1].key)
        /\ Len(CacheAfter(i)) = CacheCapacity


(***************************************************************************)
(* More claims about the queue (SpecQueue).                                *)
(***************************************************************************)
InQueue(queue, uid) == \E j \in DOMAIN queue : queue[j].uid = uid

\* The records the catch of drain d has appended to the queue so far.
AppendedBy(log, d) ==
    {log[i].r : i \in {n \in DOMAIN log : log[n].d = d /\ log[n].e = "fail"}}

ReplayedBy(log, d) ==
    {log[i].r : i \in {n \in DOMAIN log : log[n].d = d /\ log[n].e = "start"}}

RunningDrains == {d \in DOMAIN drains : ~DrainDone(drains[d])}

RowIds(rows) == {r.id : r \in rows}

\* The rows a step inserts without an end instant: the entries it starts.
StartedRows == {q \in remoteTrackings' : q.id \notin RowIds(remoteTrackings) /\ q.end_time = Null}

\* C35: a step of startTimeTrackingDb that inserts a new entry while an entry
\* is active has written the end instant of that entry remotely: the new
\* entry is not inserted while the previous one is still open.
C35_StopCompletesBeforeInsert ==
    [][(activeTimeTracking # Null /\ StartedRows # {}) =>
          \A r \in remoteTrackings' :
              r.id = activeTimeTracking.id => r.end_time # Null]_vars


(***************************************************************************)
(* SpecStop: TimeTrackingProvider over a loaded forest, with the two       *)
(* handlers that start and stop the active entry, called for the tasks of  *)
(* the forest.                                                             *)
(***************************************************************************)
NextStop ==
    \/ \E id \in ForestIds, t \in Instants, failAt \in StopFailures,
          lookup \in Lookups, okInsert \in Outcomes :
         StartTimeTracking(id, t, failAt, lookup, okInsert)
    \/ \E t \in Instants, failAt \in StopFailures : StopTimeTracking(t, failAt)

SpecStop == InitForest /\ [][NextStop]_vars

\* C40: when the remote update that stops the active entry fails, the active
\* entry and every task's tracked minutes are after the call what they were
\* before it; called with no active entry, the handler changes nothing and
\* issues no remote call.
C40_FailedStopChangesNothing ==
    lastCall.op = "stopTimeTracking" =>
        /\ (lastCall.before.active # Null /\ lastCall.failAt = 1) =>
              /\ lastCall.after.active = lastCall.before.active
              /\ lastCall.after.tasks = lastCall.before.tasks
              /\ lastCall.after.remoteTasks = lastCall.before.remoteTasks
        /\ lastCall.before.active = Null =>
              /\ lastCall.after = lastCall.before
              /\ lastCall.calls = 0

\* C40 witness: an entry is active on a task of the forest, the update that
\* stops it has failed, and it is still the active entry.
C40_Witness ==
    /\ lastCall.op = "stopTimeTracking"
    /\ lastCall.failAt = 1
    /\ lastCall.before.active # Null
    /\ FindTaskById(lastCall.before.active.taskId, lastCall.before.tasks) # Null
    /\ activeTimeTracking = lastCall.before.active
    /\ remoteFailed


(***************************************************************************)
(* SpecOverlap: the task reloads of SupabaseTaskProvider by their remote   *)
(* steps.  Another session of the same owner changes a row of `tasks`; the *)
(* notification of the change calls loadTasks, whose select the store      *)
(* answers at some later moment, and the response reaches the client at    *)
(* some moment after that.  Nothing orders the responses of two calls.     *)
(***************************************************************************)
overlapRest == <<queueVars, thrown, nextUid, offlineIssued, storedMapping, storedTasks,
                 uuids, run, resolved, lastCall, userVars, cacheVars, sessions>>

overlapTrack == <<timeTrackings, activeTimeTracking, remoteTrackings, nextTrackingId>>

\* Another session renames a task and the channel public:tasks delivers the
\* change: the callback calls loadTasks, which sends its select.
TaskChangeNotified(id, title) ==
    /\ Len(reloads) < MaxCalls
    /\ \E r \in remoteTasks : r.id = id /\ r.title # title
    /\ remoteTasks' = {IF r.id = id THEN [r EXCEPT !.title = title] ELSE r : r \in remoteTasks}
    /\ reloads' = Append(reloads, [phase |-> "issued", rows |-> {}])
    /\ reloaded' = "none"
    /\ UNCHANGED <<tasks, remoteFailed, overlapTrack, overlapRest>>

\* The store answers the select of reload i with the rows it holds now.
LoadTasksServed(i) ==
    /\ i \in DOMAIN reloads
    /\ reloads[i].phase = "issued"
    /\ reloads' = [reloads EXCEPT ![i] = [phase |-> "served", rows |-> remoteTasks]]
    /\ reloaded' = "none"
    /\ UNCHANGED <<tasks, remoteTasks, remoteFailed, overlapTrack, overlapRest>>

\* The response of reload i reaches the client: setTasks(rows), or the catch.
LoadTasksReturned(i, ok) ==
    /\ i \in DOMAIN reloads
    /\ reloads[i].phase = "served"
    /\ LET st == LoadTasksOn([Cur EXCEPT !.remoteTasks = reloads[i].rows], ok)
       IN  /\ tasks' = st.tasks
           /\ remoteFailed' = st.failed
           /\ reloaded' = st.reloaded
    /\ reloads' = [reloads EXCEPT ![i].phase = IF ok THEN "done" ELSE "failed"]
    /\ UNCHANGED <<remoteTasks, overlapTrack, overlapRest>>

NextOverlap ==
    \/ \E id \in TaskIds, title \in Titles : TaskChangeNotified(id, title)
    \/ \E i \in DOMAIN reloads : LoadTasksServed(i)
    \/ \E i \in DOMAIN reloads, ok \in Outcomes : LoadTasksReturned(i, ok)

SpecOverlap == InitDb /\ [][NextOverlap]_vars

\* Every reload that was started has returned its rows to the client.
AllReloadsApplied ==
    /\ reloads # <<>>
    /\ \A i \in DOMAIN reloads : reloads[i].phase = "done"

\* C38: once every reload started by a change notification has returned, the
\* task list is the rows of the remote table, whatever the order in which the
\* responses arrived.
C38_OverlappingReloadsConverge ==
    AllReloadsApplied => tasks = TasksOfRows(SortById(remoteTasks))


(***************************************************************************)
(* SpecService: timeTrackingService called by several clients of the same  *)
(* owner.  Each call is followed through its remote calls, one per step;   *)
(* between two of them the calls of the other clients take their steps.    *)
(* The store holds task 1 with one completed entry of one minute and one   *)
(* open entry, and task 2 with none.                                       *)
(***************************************************************************)
ServiceCall(op, pc, entry, taskId, duration) ==
    [op |-> op, pc |-> pc, entry |-> entry, taskId |-> taskId, duration |-> duration,
     endTime |-> Null, seen |-> 0]

serviceRest == <<queueVars, tasks, thrown, nextUid, offlineIssued, timeTrackings, activeTimeTracking, remoteFailed,
                 reloaded, storedMapping, storedTasks, uuids, run, resolved, lastCall,
                 userVars, cacheVars, reloads>>

\* A client calls addManualTimeTracking(tracking).
CallAddManualTimeTracking(tracking) ==
    /\ Len(sessions) < MaxCalls
    /\ sessions' = Append(sessions, ServiceCall("addManualTimeTracking", "insert", tracking,
                                                tracking.taskId, tracking.duration))
    /\ UNCHANGED <<remoteTasks, remoteTrackings, nextTrackingId, serviceRest>>

\* A client calls stopTimeTracking(timeTrackingId, taskId) for an entry it sees open.
CallStopTimeTracking(row) ==
    /\ Len(sessions) < MaxCalls
    /\ row \in remoteTrackings
    /\ row.end_time = Null
    /\ sessions' = Append(sessions, ServiceCall("stopTimeTracking", "select", row.id,
                                                row.task_id, 0))
    /\ UNCHANGED <<remoteTasks, remoteTrackings, nextTrackingId, serviceRest>>

\* A client calls deleteTimeTracking(trackingId) for an entry it sees.
CallDeleteTimeTracking(row) ==
    /\ Len(sessions) < MaxCalls
    /\ row \in remoteTrackings
    /\ row.end_time # Null
    /\ sessions' = Append(sessions, ServiceCall("deleteTimeTracking", "select", row.id, 0, 0))
    /\ UNCHANGED <<remoteTasks, remoteTrackings, nextTrackingId, serviceRest>>

\* The call's next remote call has failed: handleSupabaseError rethrows.
Rejected(i) == [sessions EXCEPT ![i].pc = "failed"]

\* addManualTimeTracking: the insert into time_trackings.
ServiceInsert(i, ok) ==
    /\ i \in DOMAIN sessions
    /\ sessions[i].pc = "insert"
    /\ LET tracking == sessions[i].entry
           row == TrackingRow(nextTrackingId, tracking.taskId,
                              ToISOString(tracking.startTime),
                              ToISOString(tracking.endTime), tracking.duration)
       IN  IF ok
           THEN /\ remoteTrackings' = remoteTrackings \cup {row}
                /\ nextTrackingId' = nextTrackingId + 1
                /\ sessions' = [sessions EXCEPT ![i].pc = "read", ![i].entry = row.id]
           ELSE /\ sessions' = [sessions EXCEPT ![i].pc = "failed", ![i].entry = 0]
                /\ UNCHANGED <<remoteTrackings, nextTrackingId>>
    /\ UNCHANGED <<remoteTasks, serviceRest>>

\* stopTimeTracking and deleteTimeTracking: the select of the entry by its id,
\* which fails when no row has it; stopTimeTracking then reads the clock.
ServiceSelectEntry(i, t, ok) ==
    /\ i \in DOMAIN sessions
    /\ sessions[i].pc = "select"
    /\ LET found == {r \in remoteTrackings : r.id = sessions[i].entry}
       IN  IF ~ok \/ found = {} THEN sessions' = Rejected(i)
           ELSE LET r == CHOOSE r \in found : TRUE
                IN  IF sessions[i].op = "stopTimeTracking"
                    THEN sessions' = [sessions EXCEPT
                                        ![i].pc = "update",
                                        ![i].endTime = Date(t),
                                        ![i].duration = ElapsedMinutes(ParseDate(r.start_time), Date(t))]
                    ELSE sessions' = [sessions EXCEPT
                                        ![i].pc = "delete",
                                        ![i].taskId = r.task_id,
                                        ![i].duration = r.duration]
    /\ UNCHANGED <<remoteTasks, remoteTrackings, nextTrackingId, serviceRest>>

\* stopTimeTracking: the update of the entry's end_time and duration.
ServiceUpdateEntry(i, ok) ==
    /\ i \in DOMAIN sessions
    /\ sessions[i].pc = "update"
    /\ IF ok
       THEN /\ remoteTrackings' =
                  {IF r.id = sessions[i].entry
                   THEN [r EXCEPT !.end_time = ToISOString(sessions[i].endTime),
                                  !.duration = sessions[i].duration]
                   ELSE r : r \in remoteTrackings}
            /\ sessions' = [sessions EXCEPT ![i].pc = "read"]
       ELSE /\ sessions' = Rejected(i)
            /\ UNCHANGED remoteTrackings
    /\ UNCHANGED <<remoteTasks, nextTrackingId, serviceRest>>

\* deleteTimeTracking: the delete of the entry.
ServiceDeleteEntry(i, ok) ==
    /\ i \in DOMAIN sessions
    /\ sessions[i].pc = "delete"
    /\ IF ok
       THEN /\ remoteTrackings' = {r \in remoteTrackings : r.id # sessions[i].entry}
            /\ sessions' = [sessions EXCEPT ![i].pc = "read"]
       ELSE /\ sessions' = Rejected(i)
            /\ UNCHANGED remoteTrackings
    /\ UNCHANGED <<remoteTasks, nextTrackingId, serviceRest>>

\* All three: select('time_tracked') of the task, which fails when no row has its id.
ServiceReadTask(i, ok) ==
    /\ i \in DOMAIN sessions
    /\ sessions[i].pc = "read"
    /\ LET found == {r \in remoteTasks : r.id = sessions[i].taskId}
       IN  IF ~ok \/ found = {} THEN sessions' = Rejected(i)
           ELSE sessions' = [sessions EXCEPT
                               ![i].pc = "write",
                               ![i].seen = (CHOOSE r \in found : TRUE).time_tracked]
    /\ UNCHANGED <<remoteTasks, remoteTrackings, nextTrackingId, serviceRest>>

\* The value written back: what was read plus the duration, or for a delete
\* what was read minus the duration and at least 0.
NewTimeTracked(call) ==
    IF call.op = "deleteTimeTracking" THEN AtLeastZero(call.seen - call.duration)
    ELSE call.seen + call.duration

\* All three: update({time_tracked: newTimeTracked}) of the task.
ServiceWriteTask(i, ok) ==
    /\ i \in DOMAIN sessions
    /\ sessions[i].pc = "write"
    /\ IF ok
       THEN /\ remoteTasks' = {IF r.id = sessions[i].taskId
                               THEN [r EXCEPT !.time_tracked = NewTimeTracked(sessions[i])]
                               ELSE r : r \in remoteTasks}
            /\ sessions' = [sessions EXCEPT ![i].pc = "done"]
       ELSE /\ sessions' = Rejected(i)
            /\ UNCHANGED remoteTasks
    /\ UNCHANGED <<remoteTrackings, nextTrackingId, serviceRest>>

InitService ==
    /\ isOnline = TRUE
    /\ pendingOperations = <<>>
    /\ drains = <<>>
    /\ replayLog = <<>>
    /\ failures = 0
    /\ remoteTasks = {TaskRow(1, "t1", 1), TaskRow(2, "t1", 0)}
    /\ tasks = TasksOfRows(SortById(remoteTasks))
    /\ thrown = FALSE
    /\ nextUid = 1
    /\ offlineIssued = {}
    /\ remoteTrackings = {TrackingRow(1, 1, ToISOString(Date(0)),
                                      ToISOString(Date(MsPerMinute)), 1),
                          TrackingRow(2, 1, ToISOString(Date(0)), Null, 0)}
    /\ timeTrackings = TrackingsOfRows(SortById(CompletedRows(remoteTrackings)))
    /\ activeTimeTracking = TrackingOfRow(TrackingRow(2, 1, ToISOString(Date(0)), Null, 0))
    /\ nextTrackingId = 3
    /\ remoteFailed = FALSE
    /\ reloaded = "none"
    /\ InitIdsIdle

NextService ==
    \/ \E e \in ManualEntries : CallAddManualTimeTracking(e)
    \/ \E row \in remoteTrackings : CallStopTimeTracking(row)
    \/ \E row \in remoteTrackings : CallDeleteTimeTracking(row)
    \/ \E i \in DOMAIN sessions, ok \in BOOLEAN : ServiceInsert(i, ok)
    \/ \E i \in DOMAIN sessions, t \in Instants, ok \in BOOLEAN : ServiceSelectEntry(i, t, ok)
    \/ \E i \in DOMAIN sessions, ok \in BOOLEAN : ServiceUpdateEntry(i, ok)
    \/ \E i \in DOMAIN sessions, ok \in BOOLEAN : ServiceDeleteEntry(i, ok)
    \/ \E i \in DOMAIN sessions, ok \in BOOLEAN : ServiceReadTask(i, ok)
    \/ \E i \in DOMAIN sessions, ok \in BOOLEAN : ServiceWriteTask(i, ok)

SpecService == InitService /\ [][NextService]_vars

\* Every call that was started has returned without an error.
AllCallsReturned ==
    /\ sessions # <<>>
    /\ \A i \in DOMAIN sessions : sessions[i].pc = "done"

\* C39: once the calls of all clients have returned, the remote time_tracked
\* of every task is the sum of the durations of its remote entries: every
\* call's duration has been added or taken off, however the calls interleaved.
C39_NoAggregateUpdateLost ==
    AllCallsReturned =>
        \A r \in remoteTasks :
            r.time_tracked =
                SumDurations(TrackingsOfRows(SortById(CompletedRows(remoteTrackings))), r.id)

====
